---- MODULE Spec2Model ----
(***************************************************************************)
(* Verification model of ansible-playtest: the four verification           *)
(* strategies, the strategy factory, the mock response resolution and the  *)
(* verdict computed by PlaybookRunner.run_playbook_with_scenario.          *)
(*                                                                         *)
(* Python dicts are functions with a finite domain of string keys; a key   *)
(* that is absent from the dict is absent from the DOMAIN.  Python lists   *)
(* are sequences.  List positions quoted from the code are 0-based, as in  *)
(* the code; sequence indexing in the model adds one.                      *)
(***************************************************************************)
EXTENDS Integers, Sequences, FiniteSets, TLC

VARIABLES
    pc,             \* position of each modelled operation: "idle", "ready", "done"
    scenario_data,  \* AnsibleTestScenario.scenario_data
    playbook_stats, \* the execution trace read back for verification
    overall_status, \* overall_status attribute of the four verifier instances
    results,        \* result dict returned by the last verify() of each verifier
    run_input,      \* arguments and environment of run_playbook_with_scenario
    runner,         \* attributes of the PlaybookRunner instance
    staging,        \* the staging directory on disk and the mock configs in it
    steps,          \* steps of run_playbook_with_scenario started, in order
    returned,       \* what run_playbook_with_scenario handed to its caller
    cleanup_returns, \* return values of the calls of cleanup() by the user
    mock_config,    \* the loaded mock configuration of one mocked module
    module_params,  \* module.params of the mocked module call
    response_data,  \* what get_response_data handed back, or the exception
    mock_call,      \* module name, environment and config file of a mocked module
    module_exit,    \* how run_mock_module left the module: exit_json, fail_json
                    \* with their keyword arguments, or the exception
    manager,        \* attributes of a ModuleMockConfigurationManager instance
    mock_files,     \* the files under the manager's temp_dir: path -> content
    env,            \* the environment dict handed to set_env_vars
    calls,          \* the calls of the manager's methods still to be made
    os_environ,     \* os.environ of the process of the orchestrator
    collection_dirs_to_check, \* the candidate directories of the real collections, in order
    mock_collections_dir, \* the directory of the mock collections
    temp_collections, \* the collections directory of the staging area
    overlaid,       \* whether overlay_mock_modules has run on the staging area
    tracker,        \* attributes of the CallbackModule instance of the tracker
    events,         \* the runner events delivered to the tracker, in order
    mocker,         \* attributes of a ModuleMocker instance
    disk,           \* the module, backup and mock files on disk: path -> content
    mocker_calls,   \* the calls made on the ModuleMocker, in order
    disk_before,    \* the files on disk when the ModuleMocker was constructed
    handler,        \* attributes of the MockSMTPHandler instance
    threads,        \* position and locals of the handler thread and the test thread
    smtp_log        \* what the two threads of the SMTP server completed, as counters

verifierVars == <<scenario_data, playbook_stats, overall_status, results>>
runVars == <<run_input, runner, staging, steps, returned, cleanup_returns>>
mockVars == <<mock_config, module_params, response_data, mock_call, module_exit>>
managerVars == <<manager, mock_files, env, calls, os_environ>>
treeVars == <<collection_dirs_to_check, mock_collections_dir, temp_collections, overlaid>>
trackerVars == <<tracker, events>>
mockerVars == <<mocker, disk, mocker_calls, disk_before>>
smtpVars == <<handler, threads, smtp_log>>
extVars == <<trackerVars, mockerVars, smtpVars>>
vars == <<pc, verifierVars, runVars, mockVars, managerVars, treeVars, extVars>>

(***************************************************************************)
(* Bounds of the model.                                                    *)
(***************************************************************************)
MaxExpectedSeq == 3
MaxActualSeq == 4
MaxCount == 2
MaxDeclaredCalls == 2
MaxTraceCalls == 2
MaxExpectedErrors == 2
MaxActualErrors == 2
MaxCleanups == 3
MaxStepLen == 3
MaxManagerCalls == 3

(***************************************************************************)
(* Python helpers.                                                         *)
(***************************************************************************)
\* dict.get(key, default)
Get(d, k, default) == IF k \in DOMAIN d THEN d[k] ELSE default

\* the empty dict / empty list
Empty == <<>>

\* all sequences over S of length at most n
SeqsUpTo(S, n) == UNION {[1..k -> S] : k \in 0..n}

\* Python values are tagged with their type: [int |-> n] or [str |-> chars],
\* a str being the sequence of its characters
PyInt(n) == [int |-> n]
PyString(chars) == [str |-> chars]

Digits == <<"0", "1", "2", "3", "4", "5", "6", "7", "8", "9">>

\* decimal representation of a natural number
RECURSIVE IntToStr(_)
IntToStr(n) ==
    IF n < 10 THEN <<Digits[n + 1]>>
    ELSE IntToStr(n \div 10) \o <<Digits[(n % 10) + 1]>>

\* str(value): the characters of the value's string form
PyStr(v) == IF "int" \in DOMAIN v THEN IntToStr(v.int) ELSE v.str

Whitespace == {" ", "\t", "\n"}

\* str.lstrip() and str.rstrip()
RECURSIVE LStrip(_)
LStrip(chars) ==
    IF chars # <<>> /\ Head(chars) \in Whitespace THEN LStrip(Tail(chars)) ELSE chars

RECURSIVE RStrip(_)
RStrip(chars) ==
    IF chars # <<>> /\ chars[Len(chars)] \in Whitespace
    THEN RStrip(SubSeq(chars, 1, Len(chars) - 1)) ELSE chars

\* str.strip()
Strip(chars) == RStrip(LStrip(chars))

\* step identifiers used in scenarios and traces
ExpectedModules == {"a", "b", "c"}
ActualModules == {"a", "b", "c", "x"}

Verifiers == {"count", "param", "seq", "error"}

\* the modelled operations: verify() of each strategy, the orchestrator and
\* the response lookup of the mock adapter
Ops == Verifiers \cup {"run", "mock", "mock_response", "mock_module"}

\* exactly the operation op is about to be called
OnlyReady(op) == [o \in Ops |-> IF o = op THEN "ready" ELSE "idle"]

(***************************************************************************)
(* CallSequenceVerifier (verifiers/sequence.py)                            *)
(***************************************************************************)
\* FindFrom searching the whole actual sequence again instead of the part
\* after the last found position
FindFrom_FromStart(actual_sequence, expected_module, actual_idx) ==
    IF \E k \in 1..Len(actual_sequence) : actual_sequence[k] = expected_module
    THEN (CHOOSE k \in 1..Len(actual_sequence) :
              /\ actual_sequence[k] = expected_module
              /\ \A j \in 1..(k - 1) : actual_sequence[j] # expected_module) - 1
    ELSE -1

\* the inner for-loop: first index in range(start, len(actual_sequence))
\* holding expected_module, or -1 when the loop ends without a break
RECURSIVE FindFrom(_, _, _)
FindFrom(actual_sequence, expected_module, actual_idx) ==
    IF actual_idx >= Len(actual_sequence) THEN -1
    ELSE IF actual_sequence[actual_idx + 1] = expected_module THEN actual_idx
    ELSE FindFrom(actual_sequence, expected_module, actual_idx + 1)

\* SequenceLoop leaving the loop at the first expected entry that is missing
RECURSIVE SequenceLoop_AbortOnMiss(_, _, _, _, _)
SequenceLoop_AbortOnMiss(expected_sequence, actual_sequence, i, last_found_idx, errors) ==
    IF i > Len(expected_sequence) THEN errors
    ELSE LET found_idx == FindFrom(actual_sequence, expected_sequence[i],
                                   last_found_idx + 1)
         IN  IF found_idx # -1
             THEN SequenceLoop_AbortOnMiss(expected_sequence, actual_sequence,
                                           i + 1, found_idx, errors)
             ELSE Append(errors, [missing |-> expected_sequence[i],
                                  after |-> last_found_idx])

\* the outer for-loop over expected_sequence; i is the 1-based position of
\* the entry being processed, errors the list built so far
RECURSIVE SequenceLoop(_, _, _, _, _)
SequenceLoop(expected_sequence, actual_sequence, i, last_found_idx, errors) ==
    IF i > Len(expected_sequence) THEN errors
    ELSE LET found_idx == FindFrom(actual_sequence, expected_sequence[i],
                                   last_found_idx + 1)
         IN  IF found_idx # -1
             THEN SequenceLoop(expected_sequence, actual_sequence, i + 1,
                               found_idx, errors)
             ELSE SequenceLoop(expected_sequence, actual_sequence, i + 1,
                               last_found_idx,
                               Append(errors, [missing |-> expected_sequence[i],
                                               after |-> last_found_idx]))

\* verify(): the returned dict
CallSequenceVerifier_verify(sd, stats) ==
    IF "verify" \notin DOMAIN sd \/ "call_sequence" \notin DOMAIN sd["verify"]
    THEN ("_overall_pass" :> TRUE)
    ELSE LET expected_sequence == sd["verify"]["call_sequence"]
             actual_sequence == Get(stats, "call_sequence", Empty)
             errors == SequenceLoop(expected_sequence, actual_sequence, 1, -1, Empty)
         IN  ("expected_sequence" :> expected_sequence)
             @@ ("actual_sequence" :> actual_sequence)
             @@ ("errors" :> errors)
             @@ ("_overall_pass" :> (Len(errors) = 0))

\* one call of verify() on the CallSequenceVerifier instance; every path of
\* verify() assigns overall_status the _overall_pass it returns
SequenceVerify ==
    /\ pc["seq"] = "ready"
    /\ LET r == CallSequenceVerifier_verify(scenario_data, playbook_stats)
       IN  /\ results' = [results EXCEPT !["seq"] = r]
           /\ overall_status' = [overall_status EXCEPT !["seq"] = r["_overall_pass"]]
    /\ pc' = [pc EXCEPT !["seq"] = "done"]
    /\ UNCHANGED <<extVars, treeVars, scenario_data, playbook_stats, runVars, mockVars, managerVars>>

(***************************************************************************)
(* ModuleCallCountVerifier (verifiers/module_call.py)                      *)
(***************************************************************************)
\* the overall flag failing when there is no record
CountOverallPass_EmptyFails(records) ==
    records # Empty /\ \A module_name \in DOMAIN records : records[module_name].passed

\* _overall_pass: all records passed, True when there is no record
CountOverallPass(records) ==
    IF records # Empty
    THEN \A module_name \in DOMAIN records : records[module_name].passed
    ELSE TRUE

\* verify() accepting a step that was called at least the declared number
\* of times
ModuleCallCountVerifier_verify_AtLeast(sd, stats) ==
    LET expected_calls ==
            IF "verify" \in DOMAIN sd /\ "expected_calls" \in DOMAIN sd["verify"]
            THEN sd["verify"]["expected_calls"] ELSE Empty
        module_calls == Get(stats, "module_calls", Empty)
        records == [module_name \in DOMAIN expected_calls |->
                       [expected |-> expected_calls[module_name],
                        actual |-> Get(module_calls, module_name, 0),
                        passed |-> expected_calls[module_name]
                                       <= Get(module_calls, module_name, 0)]]
    IN  records @@ ("_overall_pass" :> CountOverallPass(records))

\* verify(): the returned dict, one record per declared step and the
\* overall flag computed from the records before it is added to the dict
ModuleCallCountVerifier_verify(sd, stats) ==
    LET expected_calls ==
            IF "verify" \in DOMAIN sd /\ "expected_calls" \in DOMAIN sd["verify"]
            THEN sd["verify"]["expected_calls"] ELSE Empty
        module_calls == Get(stats, "module_calls", Empty)
        records == [module_name \in DOMAIN expected_calls |->
                       [expected |-> expected_calls[module_name],
                        actual |-> Get(module_calls, module_name, 0),
                        passed |-> expected_calls[module_name]
                                       = Get(module_calls, module_name, 0)]]
    IN  records @@ ("_overall_pass" :> CountOverallPass(records))

\* one call of verify() on the ModuleCallCountVerifier instance
CountVerify ==
    /\ pc["count"] = "ready"
    /\ LET r == ModuleCallCountVerifier_verify(scenario_data, playbook_stats)
       IN  /\ results' = [results EXCEPT !["count"] = r]
           /\ overall_status' = [overall_status EXCEPT !["count"] = r["_overall_pass"]]
    /\ pc' = [pc EXCEPT !["count"] = "done"]
    /\ UNCHANGED <<extVars, treeVars, scenario_data, playbook_stats, runVars, mockVars, managerVars>>

(***************************************************************************)
(* ParameterValidationVerifier (src/ansible_playtest/verifiers/parameter.py) *)
(***************************************************************************)
\* iteration order of the keys of a declared parameter set
ParamOrder == <<"p", "q">>

\* the failure entry appended for parameter param_name
ParamFailure(param_name, expected_call_params, actual_params) ==
    [param |-> param_name,
     expected |-> expected_call_params[param_name],
     actual |-> IF param_name \notin DOMAIN actual_params
                THEN PyString(<<"m", "i", "s", "s", "i", "n", "g">>)
                ELSE actual_params[param_name]]

\* the condition under which parameter param_name is appended to param_failures
ParamFails(param_name, expected_call_params, actual_params) ==
    \/ param_name \notin DOMAIN actual_params
    \/ Strip(PyStr(actual_params[param_name]))
           # Strip(PyStr(expected_call_params[param_name]))

\* the comparison loop leaving at the first failing parameter
ParamFailures_FirstOnly(expected_call_params, actual_params) ==
    LET failing == SelectSeq(ParamOrder,
                       LAMBDA k : /\ k \in DOMAIN expected_call_params
                                  /\ ParamFails(k, expected_call_params, actual_params))
    IN  IF failing = <<>> THEN <<>>
        ELSE <<ParamFailure(failing[1], expected_call_params, actual_params)>>

\* the comparison loop over expected_call_params.items(): param_failures
ParamFailures(expected_call_params, actual_params) ==
    LET failing == SelectSeq(ParamOrder,
                       LAMBDA k : /\ k \in DOMAIN expected_call_params
                                  /\ ParamFails(k, expected_call_params, actual_params))
    IN  [i \in 1..Len(failing) |->
            ParamFailure(failing[i], expected_call_params, actual_params)]

\* the detail appended for the declared parameter set at 0-based call_idx
ParamDetail(call_idx, expected_call_params, actual_calls) ==
    IF call_idx >= Len(actual_calls)
    THEN [call_index |-> call_idx, status |-> "missing",
          expected |-> expected_call_params]
    ELSE LET actual_params == Get(actual_calls[call_idx + 1], "params", Empty)
             param_failures == ParamFailures(expected_call_params, actual_params)
         IN  [call_index |-> call_idx,
              status |-> IF param_failures = <<>> THEN "passed" ELSE "failed",
              failures |-> param_failures]

\* module_result of one declared step
ParamModuleResult(expected_params, actual_calls) ==
    LET details == [i \in 1..Len(expected_params) |->
                       ParamDetail(i - 1, expected_params[i], actual_calls)]
    IN  [passed |-> \A i \in 1..Len(details) : details[i].status = "passed",
         parameter_validation |-> TRUE,
         details |-> details]

\* verify(): the returned dict; a step declared with an empty list is skipped
ParameterValidationVerifier_verify(sd, stats) ==
    IF "verify" \notin DOMAIN sd \/ "parameter_validation" \notin DOMAIN sd["verify"]
    THEN ("_overall_pass" :> TRUE)
    ELSE LET param_validations == sd["verify"]["parameter_validation"]
             module_call_details == Get(stats, "call_details", Empty)
             checked == {m \in DOMAIN param_validations : param_validations[m] # <<>>}
             records == [module_name \in checked |->
                            ParamModuleResult(param_validations[module_name],
                                              Get(module_call_details, module_name, Empty))]
         IN  records @@ ("_overall_pass" :>
                            (\A module_name \in checked : records[module_name].passed))

\* one call of verify() on the ParameterValidationVerifier instance
ParameterVerify ==
    /\ pc["param"] = "ready"
    /\ LET r == ParameterValidationVerifier_verify(scenario_data, playbook_stats)
       IN  /\ results' = [results EXCEPT !["param"] = r]
           /\ overall_status' = [overall_status EXCEPT !["param"] = r["_overall_pass"]]
    /\ pc' = [pc EXCEPT !["param"] = "done"]
    /\ UNCHANGED <<extVars, treeVars, scenario_data, playbook_stats, runVars, mockVars, managerVars>>

(***************************************************************************)
(* ErrorVerifier (verifiers/error.py)                                      *)
(***************************************************************************)
\* the str operator "in" compared as equality of the two strings
PyIn_Exact(needle, hay) == needle = hay

\* needle in hay, for two strings: needle starts at some offset of hay
RECURSIVE PyIn(_, _)
PyIn(needle, hay) ==
    IF Len(needle) > Len(hay) THEN FALSE
    ELSE IF SubSeq(hay, 1, Len(needle)) = needle THEN TRUE
    ELSE PyIn(needle, Tail(hay))

\* the inner loop over actual_errors: error_found for one expected error
ErrorFound(expected_error, actual_errors) ==
    LET expected_message == Get(expected_error, "message", <<>>)
        expected_task == Get(expected_error, "task", <<>>)
    IN  \E j \in 1..Len(actual_errors) :
            /\ PyIn(expected_message, Get(actual_errors[j], "message", <<>>))
            /\ (expected_task = <<>>
                   \/ PyIn(expected_task, Get(actual_errors[j], "task", <<>>)))

\* error_result recorded for one expected error
ErrorResult(expected_error, actual_errors) ==
    [expected_message |-> Get(expected_error, "message", <<>>),
     expected_task |-> Get(expected_error, "task", <<>>),
     found |-> ErrorFound(expected_error, actual_errors),
     actual_errors |->
         IF ErrorFound(expected_error, actual_errors) THEN <<>>
         ELSE [j \in 1..Len(actual_errors) |->
                  [task |-> Get(actual_errors[j], "task", <<>>),
                   message |-> Get(actual_errors[j], "message", <<>>)]]]

\* sum of host_stats.get('failures', 0) over the given hosts
RECURSIVE SumFailures(_, _)
SumFailures(hosts, names) ==
    IF names = {} THEN 0
    ELSE LET h == CHOOSE h \in names : TRUE
         IN  Get(hosts[h], "failures", 0) + SumFailures(hosts, names \ {h})

\* host_failed_count: 0 unless the trace has play_recap.hosts
HostFailedCount(stats) ==
    IF "play_recap" \in DOMAIN stats /\ "hosts" \in DOMAIN stats["play_recap"]
    THEN SumFailures(stats["play_recap"]["hosts"], DOMAIN stats["play_recap"]["hosts"])
    ELSE 0

\* process_failed: host_failed_count is an int on every path, never None,
\* so the conditional expression always takes its first branch
ProcessFailed(stats) == HostFailedCount(stats) > 0

\* the overall flag computed from the error checks only
ErrorOverallPass_ChecksOnly(all_errors_found, process_failure_passed) ==
    all_errors_found

\* _overall_pass of a verify() that ran its checks
ErrorOverallPass(all_errors_found, process_failure_passed) ==
    all_errors_found /\ process_failure_passed

\* verify() reaches its checks: expected_errors is declared and not empty
ErrorChecksRun(sd) ==
    /\ "verify" \in DOMAIN sd
    /\ "expected_errors" \in DOMAIN sd["verify"]
    /\ sd["verify"]["expected_errors"] # <<>>

\* verify(): the returned dict
ErrorVerifier_verify(sd, stats) ==
    IF ~ErrorChecksRun(sd)
    THEN [error_checks |-> <<>>] @@ ("_overall_pass" :> TRUE)
    ELSE LET expected_errors == sd["verify"]["expected_errors"]
             actual_errors == Get(stats, "errors", <<>>)
             error_checks == [i \in 1..Len(expected_errors) |->
                                 ErrorResult(expected_errors[i], actual_errors)]
             all_errors_found == \A i \in 1..Len(error_checks) : error_checks[i].found
             process_failure_expected ==
                 \E i \in 1..Len(expected_errors) :
                     Get(expected_errors[i], "expect_process_failure", FALSE)
             process_failure ==
                 [expected |-> process_failure_expected,
                  actual |-> ProcessFailed(stats),
                  passed |-> (process_failure_expected = ProcessFailed(stats))]
         IN  [error_checks |-> error_checks, process_failure |-> process_failure]
             @@ ("_overall_pass" :> ErrorOverallPass(all_errors_found,
                                                     process_failure.passed))

\* overall_status after verify(): assigned only when the checks ran
ErrorVerifier_status(sd, stats, old_status) ==
    IF ErrorChecksRun(sd) THEN ErrorVerifier_verify(sd, stats)["_overall_pass"]
    ELSE old_status

\* one call of verify() on the ErrorVerifier instance
ErrorVerify ==
    /\ pc["error"] = "ready"
    /\ results' = [results EXCEPT
                      !["error"] = ErrorVerifier_verify(scenario_data, playbook_stats)]
    /\ overall_status' = [overall_status EXCEPT
                             !["error"] = ErrorVerifier_status(scenario_data,
                                                               playbook_stats, @)]
    /\ pc' = [pc EXCEPT !["error"] = "done"]
    /\ UNCHANGED <<extVars, treeVars, scenario_data, playbook_stats, runVars, mockVars, managerVars>>

(***************************************************************************)
(* VerificationStrategyFactory (verifiers/factory.py) and                  *)
(* AnsibleTestScenario (core/ansible_test_scenario.py)                     *)
(***************************************************************************)
\* the verify key that makes the factory create each strategy, in the order
\* in which create_strategies tests them
StrategyOrder == <<"count", "param", "seq", "error">>

StrategyKey ==
    [count |-> "expected_calls", param |-> "parameter_validation",
     seq |-> "call_sequence", error |-> "expected_errors"]

\* create_strategies(): the strategies created, in creation order
create_strategies(sd) ==
    IF "verify" \in DOMAIN sd
    THEN SelectSeq(StrategyOrder, LAMBDA v : StrategyKey[v] \in DOMAIN sd["verify"])
    ELSE <<>>

\* strategy.verify(scenario_data, playbook_stats) of strategy v
StrategyVerify(v, sd, stats) ==
    CASE v = "count" -> ModuleCallCountVerifier_verify(sd, stats)
      [] v = "param" -> ParameterValidationVerifier_verify(sd, stats)
      [] v = "seq" -> CallSequenceVerifier_verify(sd, stats)
      [] v = "error" -> ErrorVerifier_verify(sd, stats)

\* strategy.get_status() after that verify(), old_status being the
\* overall_status before the call
StrategyStatus(v, sd, stats, old_status) ==
    IF v = "error" THEN ErrorVerifier_status(sd, stats, old_status)
    ELSE StrategyVerify(v, sd, stats)["_overall_pass"]

\* run_verifiers(): combined_results.update(results) for each strategy in
\* order, a later strategy's keys replacing equal keys of an earlier one
RECURSIVE run_verifiers(_, _, _, _, _)
run_verifiers(strategies, sd, stats, i, combined_results) ==
    IF i > Len(strategies) THEN combined_results
    ELSE run_verifiers(strategies, sd, stats, i + 1,
                       StrategyVerify(strategies[i], sd, stats) @@ combined_results)

\* expects_failure()
expects_failure(sd) ==
    /\ "verify" \in DOMAIN sd
    /\ "expected_errors" \in DOMAIN sd["verify"]
    /\ \E i \in 1..Len(sd["verify"]["expected_errors"]) :
           Get(sd["verify"]["expected_errors"][i], "expect_process_failure", FALSE)

(***************************************************************************)
(* PlaybookRunner (core/playbook_runner.py)                                *)
(***************************************************************************)
\* PlaybookRunner.__init__
NewRunner ==
    [success |-> FALSE, execution_details |-> Empty, temp_dir |-> "None",
     temp_collections_dir |-> "None", module_temp_files |-> {},
     module_mock_manager |-> "None"]

\* the filesystem before a run: no staging directory
NoStaging == [dir |-> FALSE, mock_configs |-> {}]

\* cleanup() resetting the attributes only when the directory was removed
cleanup_KeepOnFailure(self, fs, rmtree_fails) ==
    LET afterManager ==
            IF self.module_mock_manager # "None"
            THEN [fs EXCEPT !.mock_configs = @ \ self.module_temp_files]
            ELSE fs
        failed == self.temp_dir # "None" /\ afterManager.dir /\ rmtree_fails
    IN  [runner |-> IF failed THEN self
                    ELSE [self EXCEPT !.temp_dir = "None",
                                      !.temp_collections_dir = "None",
                                      !.module_temp_files = {},
                                      !.module_mock_manager = "None"],
         staging |-> IF self.temp_dir # "None" /\ afterManager.dir /\ ~rmtree_fails
                     THEN NoStaging ELSE afterManager,
         success |-> ~failed]

\* cleanup(): the mock manager, if any, removes its config files; the
\* staging directory, if set and existing, is removed, a failure of rmtree
\* making the return value False; the instance attributes are reset
cleanup(self, fs, rmtree_fails) ==
    LET afterManager ==
            IF self.module_mock_manager # "None"
            THEN [fs EXCEPT !.mock_configs = @ \ self.module_temp_files]
            ELSE fs
        failed == self.temp_dir # "None" /\ afterManager.dir /\ rmtree_fails
    IN  [runner |-> [self EXCEPT !.temp_dir = "None", !.temp_collections_dir = "None",
                                 !.module_temp_files = {}, !.module_mock_manager = "None"],
         staging |-> IF self.temp_dir # "None" /\ afterManager.dir /\ ~rmtree_fails
                     THEN NoStaging ELSE afterManager,
         success |-> ~failed]

\* the result dict of run_playbook() for a virtualenv run
VirtualenvResult(rc) ==
    IF rc # 0 THEN [status |-> "failed", rc |-> rc, success |-> FALSE]
    ELSE [status |-> "successful", rc |-> 0, success |-> TRUE]

\* playbook_success of both ways of running the playbook
PlaybookSuccess(inp) ==
    IF inp.use_virtualenv THEN Get(VirtualenvResult(inp.rc), "success", FALSE)
    ELSE inp.rc = 0

\* runner_rc of both ways of running the playbook
RunnerRc(inp) ==
    IF inp.use_virtualenv THEN Get(VirtualenvResult(inp.rc), "rc", 1) ELSE inp.rc

\* overall_success computed with "or" between the two conditions
OverallSuccess_Or(expected_failure, playbook_success, verification_passed) ==
    LET test_success == \/ (expected_failure /\ ~playbook_success)
                        \/ (~expected_failure /\ playbook_success)
    IN  test_success \/ verification_passed

\* overall_success
OverallSuccess(expected_failure, playbook_success, verification_passed) ==
    LET test_success == \/ (expected_failure /\ ~playbook_success)
                        \/ (~expected_failure /\ playbook_success)
    IN  test_success /\ verification_passed

\* the normal return of the inner try block: the verification of the trace
\* and the verdict
ExecutionDetails(inp, sd, stats) ==
    LET strategies == create_strategies(sd)
        verification_results == run_verifiers(strategies, sd, stats, 1, Empty)
        verification_passed ==
            \A i \in 1..Len(strategies) : StrategyStatus(strategies[i], sd, stats, TRUE)
        expected_failure == expects_failure(sd)
        overall_success ==
            OverallSuccess(expected_failure, PlaybookSuccess(inp), verification_passed)
    IN  [success |-> overall_success,
         playbook_success |-> PlaybookSuccess(inp),
         expected_failure |-> expected_failure,
         verification_passed |-> verification_passed,
         returncode |-> RunnerRc(inp),
         verification |-> verification_results,
         mock_dir |-> IF inp.keep_mocks THEN "temp_dir" ELSE "None",
         artifacts_dir |-> "artifacts",
         used_virtualenv |-> inp.use_virtualenv]

\* the tuple returned on an error path
ErrorReturn(message) == [raised |-> FALSE, success |-> FALSE, details |-> [error |-> message]]

\* an exception leaves run_playbook_with_scenario
Raised == [raised |-> TRUE]

\* cleanup placed after the try block instead of in a finally clause: it
\* is skipped when the block is left by a return or by an exception
Finally_AfterTry(inp, out) ==
    IF inp.keep_mocks \/ out.returned.raised \/ "error" \in DOMAIN out.returned.details
    THEN out
    ELSE [out EXCEPT
             !.runner = cleanup(out.runner, out.staging, inp.rmtree_fails).runner,
             !.staging = cleanup(out.runner, out.staging, inp.rmtree_fails).staging,
             !.steps = Append(@, "cleanup")]

\* the finally block: cleanup unless keep_mocks
Finally(inp, out) ==
    IF inp.keep_mocks THEN out
    ELSE [out EXCEPT
             !.runner = cleanup(out.runner, out.staging, inp.rmtree_fails).runner,
             !.staging = cleanup(out.runner, out.staging, inp.rmtree_fails).staging,
             !.steps = Append(@, "cleanup")]

\* the steps of run_playbook_with_scenario in the order of its statements
CycleOrder ==
    <<"load_scenario", "mkdir", "copy_real_collections", "overlay_mock_modules",
      "create_mock_configs", "set_env_vars", "run", "playbook_statistics",
      "run_verifiers">>

\* the steps started with the mock overlay applied before the copy of the
\* real collections
StepsUpTo_OverlayFirst(last) ==
    LET order == [CycleOrder EXCEPT ![3] = "overlay_mock_modules",
                                    ![4] = "copy_real_collections"]
    IN  SubSeq(order, 1, CHOOSE i \in 1..Len(order) : order[i] = last)

\* the steps started when the call reaches, or fails in, the step last
StepsUpTo(last) ==
    SubSeq(CycleOrder, 1, CHOOSE i \in 1..Len(CycleOrder) : CycleOrder[i] = last)

\* run_playbook_with_scenario(): the value handed to the caller, the
\* instance attributes, the staging directory and the steps started.
\* inp.fault names the step that fails, if any.
RunOutcome(inp, sd, stats, self) ==
    IF inp.fault = "playbook_missing"
    THEN [returned |-> ErrorReturn("Playbook not found"), runner |-> self,
          staging |-> NoStaging, steps |-> <<>>]
    ELSE IF inp.fault = "scenario_missing"
    THEN [returned |-> ErrorReturn("Scenario not found"), runner |-> self,
          staging |-> NoStaging, steps |-> StepsUpTo("load_scenario")]
    ELSE IF inp.fault = "scenario_malformed"
    THEN [returned |-> Raised, runner |-> self,
          staging |-> NoStaging, steps |-> StepsUpTo("load_scenario")]
    ELSE
    LET staged == [self EXCEPT !.temp_dir = "temp_dir"]
        dirOnly == [dir |-> TRUE, mock_configs |-> {}]
        module_names == DOMAIN Get(sd, "service_mocks", Empty)
        configured == [staged EXCEPT !.temp_collections_dir = "temp_collections_dir",
                                     !.module_mock_manager = "manager",
                                     !.module_temp_files = module_names]
        withConfigs == [dir |-> TRUE, mock_configs |-> module_names]
    IN  IF inp.fault = "copy"
        THEN [returned |-> Raised, runner |-> staged, staging |-> dirOnly,
              steps |-> StepsUpTo("copy_real_collections")]
        ELSE IF inp.fault = "overlay"
        THEN [returned |-> Raised,
              runner |-> [staged EXCEPT !.temp_collections_dir = "temp_collections_dir"],
              staging |-> dirOnly, steps |-> StepsUpTo("overlay_mock_modules")]
        ELSE IF inp.fault = "mock_configs"
        THEN Finally(inp,
                 [returned |-> Raised,
                  runner |-> [staged EXCEPT !.temp_collections_dir = "temp_collections_dir",
                                            !.module_mock_manager = "manager"],
                  staging |-> dirOnly,
                  steps |-> StepsUpTo("create_mock_configs")])
        ELSE IF inp.fault = "runner"
        THEN Finally(inp,
                 [returned |-> ErrorReturn("runner raised"), runner |-> configured,
                  staging |-> withConfigs,
                  steps |-> StepsUpTo("run")])
        ELSE IF inp.fault = "verify"
        THEN Finally(inp,
                 [returned |-> ErrorReturn("verification raised"), runner |-> configured,
                  staging |-> withConfigs,
                  steps |-> StepsUpTo("run_verifiers")])
        ELSE Finally(inp,
                 [returned |-> [raised |-> FALSE,
                                success |-> ExecutionDetails(inp, sd, stats).success,
                                details |-> ExecutionDetails(inp, sd, stats)],
                  runner |-> [configured EXCEPT
                                 !.success = ExecutionDetails(inp, sd, stats).success,
                                 !.execution_details = ExecutionDetails(inp, sd, stats)],
                  staging |-> withConfigs,
                  steps |-> StepsUpTo("run_verifiers")])

\* one call of run_playbook_with_scenario on the PlaybookRunner instance
RunPlaybookWithScenario ==
    /\ pc["run"] = "ready"
    /\ LET out == RunOutcome(run_input, scenario_data, playbook_stats, runner)
       IN  /\ returned' = out.returned
           /\ runner' = out.runner
           /\ staging' = out.staging
           /\ steps' = out.steps
    /\ pc' = [pc EXCEPT !["run"] = "done"]
    /\ UNCHANGED <<extVars, treeVars, verifierVars, run_input, cleanup_returns, mockVars, managerVars>>

\* one call of cleanup() by the user of the PlaybookRunner instance, before
\* or after a call of run_playbook_with_scenario
Cleanup ==
    /\ pc["run"] # "ready"
    /\ Len(cleanup_returns) < MaxCleanups
    /\ \E rmtree_fails \in BOOLEAN :
           LET out == cleanup(runner, staging, rmtree_fails)
           IN  /\ runner' = out.runner
               /\ staging' = out.staging
               /\ cleanup_returns' = Append(cleanup_returns, out.success)
    /\ UNCHANGED <<extVars, treeVars, pc, verifierVars, run_input, steps, returned, mockVars,
                   managerVars>>

\* a PlaybookRunner right after construction, nothing staged, nothing returned
InitRunner ==
    /\ runner = NewRunner
    /\ staging = NoStaging
    /\ steps = <<>>
    /\ returned = Empty
    /\ cleanup_returns = <<>>

\* value of run_input while run_playbook_with_scenario is not modelled
NoRunInput == Empty

(***************************************************************************)
(* MockAnsibleAdapter (ansible_mocker/mock_ansible_adapter.py)             *)
(*                                                                         *)
(* A loaded mock configuration is [list |-> entries] for a JSON list and   *)
(* [dict |-> entry] for a single JSON object.  An entry is a dict with an  *)
(* optional "task_parameters" dict; parameter values are tagged values.   *)
(***************************************************************************)
\* a copy of dict d after d.pop(key)
DictPop(d, key) == [k \in DOMAIN d \ {key} |-> d[k]]

\* the inner loop over task_parameters.items(): the flag stays True iff no
\* key is missing from module.params and no value differs once stringified
task_params_match(task_parameters, params) ==
    \A key \in DOMAIN task_parameters :
        /\ key \in DOMAIN params
        /\ PyStr(params[key]) = PyStr(task_parameters[key])

\* the loop keeping the last matching entry instead of returning the first
RECURSIVE ResponseLoop_LastMatch(_, _, _, _)
ResponseLoop_LastMatch(entries, params, i, default_response) ==
    IF i > Len(entries) THEN default_response
    ELSE IF /\ "task_parameters" \in DOMAIN entries[i]
            /\ task_params_match(entries[i]["task_parameters"], params)
         THEN ResponseLoop_LastMatch(entries, params, i + 1,
                                     DictPop(entries[i], "task_parameters"))
         ELSE ResponseLoop_LastMatch(entries, params, i + 1, default_response)

\* the for-loop over mock_config from its i-th entry on (1-based): the copy
\* of the first matching entry, its task_parameters popped, else the default
RECURSIVE ResponseLoop(_, _, _, _)
ResponseLoop(entries, params, i, default_response) ==
    IF i > Len(entries) THEN default_response
    ELSE IF /\ "task_parameters" \in DOMAIN entries[i]
            /\ task_params_match(entries[i]["task_parameters"], params)
         THEN DictPop(entries[i], "task_parameters")
         ELSE ResponseLoop(entries, params, i + 1, default_response)

\* mock_config[0] of an empty list
IndexError == [raised |-> "IndexError"]

\* get_response_data answering an empty list with an empty response
get_response_data_EmptyResponse(config, params) ==
    IF "list" \notin DOMAIN config
    THEN [returned |-> config.dict]
    ELSE IF config.list = <<>>
         THEN [returned |-> Empty]
         ELSE [returned |-> ResponseLoop(config.list, params, 1, config.list[1])]

\* get_response_data(mock_config, module)
get_response_data(config, params) ==
    IF "list" \notin DOMAIN config
    THEN [returned |-> config.dict]
    ELSE IF config.list = <<>>
         THEN IndexError
         ELSE [returned |-> ResponseLoop(config.list, params, 1, config.list[1])]

\* one call of MockAnsibleAdapter.get_response_data
GetResponseData ==
    /\ pc["mock"] = "ready"
    /\ response_data' = get_response_data(mock_config, module_params)
    /\ pc' = [pc EXCEPT !["mock"] = "done"]
    /\ UNCHANGED <<extVars, treeVars, verifierVars, runVars, mock_config, module_params,
                   mock_call, module_exit, managerVars>>

\* AnsibleTestScenario.get_mock_response(module_name): the entry of the
\* step in service_mocks, a list or a dict, else the assume-success default
get_mock_response(sd, module_name) ==
    IF module_name \in DOMAIN Get(sd, "service_mocks", Empty)
    THEN sd["service_mocks"][module_name]
    ELSE [dict |-> [success |-> TRUE]]

\* one call of AnsibleTestScenario.get_mock_response
GetMockResponse ==
    /\ pc["mock_response"] = "ready"
    /\ response_data' = [returned |-> get_mock_response(scenario_data, mock_call.module_name)]
    /\ pc' = [pc EXCEPT !["mock_response"] = "done"]
    /\ UNCHANGED <<extVars, treeVars, verifierVars, runVars, mock_config, module_params,
                   mock_call, module_exit, managerVars>>

\* str.upper() of one character of a step identifier
UpperChar(c) ==
    CASE c = "a" -> "A"
      [] c = "b" -> "B"
      [] OTHER -> c

\* module_name.replace(".", "_").upper()
env_module_name(module_name) ==
    [i \in 1..Len(module_name) |->
        UpperChar(IF module_name[i] = "." THEN "_" ELSE module_name[i])]

\* the literals of the f-strings naming the environment variables
MockPrefix == <<"A", "N", "S", "I", "B", "L", "E", "_", "M", "O", "C", "K", "_">>
ConfigSuffix == <<"_", "C", "O", "N", "F", "I", "G">>
EnabledSuffix == <<"_", "E", "N", "A", "B", "L", "E", "D">>

\* f"ANSIBLE_MOCK_{env_module_name}_CONFIG"
ConfigVarName(module_name) == MockPrefix \o env_module_name(module_name) \o ConfigSuffix

\* f"ANSIBLE_MOCK_{env_module_name}_ENABLED"
EnabledVarName(module_name) == MockPrefix \o env_module_name(module_name) \o EnabledSuffix

\* the literal of the f-string naming the mock config file of a step
ConfigFileSuffix ==
    <<"_", "m", "o", "c", "k", "_", "c", "o", "n", "f", "i", "g", ".", "j", "s", "o", "n">>

\* os.path.join(temp_dir, f"{module_name}_mock_config.json")
ConfigFilePath(temp_dir, module_name) ==
    [dir |-> temp_dir, name |-> module_name \o ConfigFileSuffix]

\* the None of Python, where a path or a configuration is expected
None == [none |-> TRUE]
IsNone(x) == "none" \in DOMAIN x

\* get_mock_config_path(module_name) with os.environ = environ
get_mock_config_path(module_name, environ) ==
    IF ConfigVarName(module_name) \in DOMAIN environ
    THEN environ[ConfigVarName(module_name)]
    ELSE None

\* load_mock_config(file_path): the parsed content of a readable JSON file,
\* None when the file cannot be opened or parsed
load_mock_config(file_path, files) ==
    IF file_path \in DOMAIN files /\ "json" \in DOMAIN files[file_path]
    THEN files[file_path].json
    ELSE None

\* truth value of a loaded mock configuration: None, {} and [] are falsy
Truthy(config) ==
    /\ ~IsNone(config)
    /\ IF "list" \in DOMAIN config THEN config.list # <<>> ELSE config.dict # Empty

\* module.fail_json(**kwargs) and module.exit_json(**kwargs) end the module
fail_json(kwargs) == [call |-> "fail_json", kwargs |-> kwargs]
exit_json(kwargs) == [call |-> "exit_json", kwargs |-> kwargs]

\* fail_json(msg=error_msg, **response_data) with msg also in response_data
TypeError == [raised |-> "TypeError"]

\* lines 66-79: the success key decides between fail_json and exit_json
\* and is deleted from the response handed over
HandResponse(response) ==
    LET is_failure == IF "success" \in DOMAIN response THEN ~response["success"] ELSE FALSE
        response_data_ == DictPop(response, "success")
        error_msg == Get(response_data_, "error_message", "Mock service failure")
    IN  IF is_failure
        THEN IF "msg" \in DOMAIN response_data_
             THEN TypeError
             ELSE fail_json([msg |-> error_msg] @@ response_data_)
        ELSE exit_json(response_data_)

\* run_mock_module(module_name, ...) with module.params = params, with
\* os.environ = environ and with the files of the file system
run_mock_module(module_name, params, environ, files) ==
    LET mock_config_path == get_mock_config_path(module_name, environ)
        config == load_mock_config(mock_config_path, files)
    IN  IF IsNone(mock_config_path)
        THEN fail_json([changed |-> FALSE, msg |-> "No mock config found, no mock config path found"])
        ELSE IF ~Truthy(config)
        THEN fail_json([changed |-> FALSE, msg |-> "No mock config found at path"])
        ELSE LET response == get_response_data(config, params)
             IN  IF "raised" \in DOMAIN response THEN response
                 ELSE HandResponse(response.returned)

\* one call of MockAnsibleAdapter.run_mock_module
RunMockModule ==
    /\ pc["mock_module"] = "ready"
    /\ module_exit' = run_mock_module(mock_call.module_name, module_params,
                                      mock_call.env, mock_call.files)
    /\ pc' = [pc EXCEPT !["mock_module"] = "done"]
    /\ UNCHANGED <<extVars, treeVars, verifierVars, runVars, mock_config, module_params,
                   response_data, mock_call, managerVars>>

\* no mock configuration loaded, no module call answered
InitAdapter ==
    /\ mock_config = Empty
    /\ module_params = Empty
    /\ response_data = Empty
    /\ mock_call = Empty
    /\ module_exit = Empty

(***************************************************************************)
(* ModuleMockConfigurationManager                                          *)
(* (ansible_mocker/module_mock_configuration_manager.py)                   *)
(*                                                                         *)
(* module_configs is the dict in insertion order: a sequence of records    *)
(* [module_name, file_path] with distinct module names.                    *)
(***************************************************************************)
\* ModuleMockConfigurationManager(temp_dir)
NewManager(temp_dir) ==
    [temp_dir |-> temp_dir, module_temp_files |-> <<>>, module_configs |-> <<>>]

\* d[key] = value on a dict in insertion order: a new key goes to the end,
\* an existing key keeps its place
DictSet(d, key, value) ==
    IF \E i \in 1..Len(d) : d[i].module_name = key
    THEN [i \in 1..Len(d) |->
             IF d[i].module_name = key THEN [d[i] EXCEPT !.file_path = value] ELSE d[i]]
    ELSE Append(d, [module_name |-> key, file_path |-> value])

\* assignment of one item into a mapping
Assign(f, key, value) == (key :> value) @@ f

\* the loop of create_mock_configs keeping only the last path written in
\* module_temp_files
RECURSIVE CreateLoop_TrackLast(_, _, _, _, _)
CreateLoop_TrackLast(self, files, sd, module_names, i) ==
    IF i > Len(module_names) THEN [manager |-> self, files |-> files]
    ELSE LET module_name == module_names[i]
             mock_data == get_mock_response(sd, module_name)
             file_path == ConfigFilePath(self.temp_dir, module_name)
         IN  CreateLoop_TrackLast(
                 [self EXCEPT !.module_temp_files = <<file_path>>,
                              !.module_configs = DictSet(@, module_name, file_path)],
                 Assign(files, file_path, [json |-> mock_data]),
                 sd, module_names, i + 1)

\* the loop of create_mock_configs from the i-th module name on: the mock
\* response of the module is dumped as JSON into its file, the path is
\* appended to module_temp_files and stored in module_configs
RECURSIVE CreateLoop(_, _, _, _, _)
CreateLoop(self, files, sd, module_names, i) ==
    IF i > Len(module_names) THEN [manager |-> self, files |-> files]
    ELSE LET module_name == module_names[i]
             mock_data == get_mock_response(sd, module_name)
             file_path == ConfigFilePath(self.temp_dir, module_name)
         IN  CreateLoop(
                 [self EXCEPT !.module_temp_files = Append(@, file_path),
                              !.module_configs = DictSet(@, module_name, file_path)],
                 Assign(files, file_path, [json |-> mock_data]),
                 sd, module_names, i + 1)

\* create_mock_configs(scenario, module_names)
create_mock_configs(self, files, sd, module_names) ==
    CreateLoop(self, files, sd, module_names, 1)

\* the loop of set_env_vars over module_configs.items()
RECURSIVE set_env_vars(_, _, _)
set_env_vars(self, e, i) ==
    IF i > Len(self.module_configs) THEN e
    ELSE LET module_name == self.module_configs[i].module_name
             config_path == self.module_configs[i].file_path
         IN  set_env_vars(self,
                 Assign(Assign(e, ConfigVarName(module_name), config_path),
                        EnabledVarName(module_name), [text |-> "true"]),
                 i + 1)

\* the loop of cleanup() over module_temp_files: every file that exists is
\* removed; os.remove raises OSError on the locked files, which is passed
\* over
manager_cleanup(self, files, locked) ==
    LET tracked == {self.module_temp_files[i] : i \in 1..Len(self.module_temp_files)}
    IN  [p \in DOMAIN files \ (tracked \ locked) |-> files[p]]

\* the next call of a method of the manager
NextCall(op) == calls # <<>> /\ Head(calls).op = op

\* one call of create_mock_configs
CreateMockConfigs ==
    /\ NextCall("create_mock_configs")
    /\ LET out == create_mock_configs(manager, mock_files, scenario_data,
                                      Head(calls).module_names)
       IN  /\ manager' = out.manager
           /\ mock_files' = out.files
    /\ calls' = Tail(calls)
    /\ UNCHANGED <<extVars, treeVars, pc, verifierVars, runVars, mockVars, env, os_environ>>

\* one call of set_env_vars
SetEnvVars ==
    /\ NextCall("set_env_vars")
    /\ env' = set_env_vars(manager, env, 1)
    /\ calls' = Tail(calls)
    /\ UNCHANGED <<extVars, treeVars, pc, verifierVars, runVars, mockVars, manager, mock_files,
                   os_environ>>

\* one call of cleanup
ManagerCleanup ==
    /\ NextCall("cleanup")
    /\ mock_files' = manager_cleanup(manager, mock_files, Head(calls).locked)
    /\ calls' = Tail(calls)
    /\ UNCHANGED <<extVars, treeVars, pc, verifierVars, runVars, mockVars, manager, env, os_environ>>

\* no manager in use
InitManager ==
    /\ manager = Empty
    /\ mock_files = Empty
    /\ env = Empty
    /\ calls = <<>>
    /\ os_environ = Empty

\* the names of the variables set for the external runner
ANSIBLE_TEST_TMP_DIR ==
    <<"A", "N", "S", "I", "B", "L", "E", "_", "T", "E", "S", "T", "_", "T", "M", "P", "_",
      "D", "I", "R">>
ANSIBLE_COLLECTIONS_PATH ==
    <<"A", "N", "S", "I", "B", "L", "E", "_", "C", "O", "L", "L", "E", "C", "T", "I", "O",
      "N", "S", "_", "P", "A", "T", "H">>
PYTHONPATH == <<"P", "Y", "T", "H", "O", "N", "P", "A", "T", "H">>

\* os.path.join(temp_dir, "ansible_collections")
TempCollectionsDir(temp_dir) == [dir |-> temp_dir, name |-> "ansible_collections"]

\* lines 280-295 with env bound to os.environ itself instead of a copy
runner_env_NoCopy(self, environ) ==
    LET wired == set_env_vars(self, environ, 1)
        tmp == Assign(wired, ANSIBLE_TEST_TMP_DIR, [text |-> self.temp_dir])
        coll == Assign(tmp, ANSIBLE_COLLECTIONS_PATH, TempCollectionsDir(self.temp_dir))
        path == Assign(coll, PYTHONPATH,
                       IF PYTHONPATH \in DOMAIN coll
                       THEN [joined |-> <<[text |-> "parent_dir"], coll[PYTHONPATH]>>]
                       ELSE [text |-> "parent_dir"])
    IN  [env |-> path, environ |-> path]

\* lines 280-295: the mapping handed to the external runner is a copy of
\* os.environ that receives the mock variables of the manager, the staging
\* directory, the staged collections path and the Python path; the result
\* names the mapping and os.environ after these statements
runner_env(self, environ) ==
    LET wired == set_env_vars(self, environ, 1)
        tmp == Assign(wired, ANSIBLE_TEST_TMP_DIR, [text |-> self.temp_dir])
        coll == Assign(tmp, ANSIBLE_COLLECTIONS_PATH, TempCollectionsDir(self.temp_dir))
        path == Assign(coll, PYTHONPATH,
                       IF PYTHONPATH \in DOMAIN coll
                       THEN [joined |-> <<[text |-> "parent_dir"], coll[PYTHONPATH]>>]
                       ELSE [text |-> "parent_dir"])
    IN  [env |-> path, environ |-> environ]

\* the environment of the external runner is built from os.environ
RunnerEnv ==
    /\ NextCall("runner_env")
    /\ LET out == runner_env(manager, os_environ)
       IN  /\ env' = out.env
           /\ os_environ' = out.environ
    /\ calls' = Tail(calls)
    /\ UNCHANGED <<extVars, treeVars, pc, verifierVars, runVars, mockVars, manager, mock_files>>

(***************************************************************************)
(* The staging of the collections: copy_real_collections_to_temp and       *)
(* overlay_mock_modules.  A directory tree is the mapping of the relative  *)
(* paths of its files to their contents; a path is the sequence of its     *)
(* components.                                                             *)
(***************************************************************************)
\* a directory that does not exist
Missing == [exists |-> FALSE]

\* an existing directory
Directory(files) == [exists |-> TRUE, files |-> files]

\* the loop over collection_dirs_to_check: the first directory that exists
RECURSIVE collections_source(_, _)
collections_source(dirs, i) ==
    IF i > Len(dirs) THEN Missing
    ELSE IF dirs[i].exists THEN dirs[i]
    ELSE collections_source(dirs, i + 1)

\* the files of the staging area after copy_real_collections_to_temp: the
\* new ansible_collections directory receives a copytree of every item of
\* the source that is a directory; without a source it stays empty
copy_real_collections_to_temp(dirs) ==
    LET source == collections_source(dirs, 1)
    IN  IF source.exists
        THEN [path \in {q \in DOMAIN source.files : Len(q) > 1} |-> source.files[path]]
        ELSE Empty

\* the files of the staging area after overlay_mock_modules: every file of
\* the mock collections directory is copied to the same relative path,
\* overwriting a file that is there; nothing is done without the directory
overlay_mock_modules(temp_files, mock_dir) ==
    IF mock_dir.exists
    THEN [path \in DOMAIN temp_files \cup DOMAIN mock_dir.files |->
             IF path \in DOMAIN mock_dir.files THEN mock_dir.files[path] ELSE temp_files[path]]
    ELSE temp_files

\* self.temp_collections_dir = self.copy_real_collections_to_temp(self.temp_dir)
CopyRealCollectionsToTemp ==
    /\ collection_dirs_to_check # <<>>
    /\ IsNone(temp_collections)
    /\ temp_collections' = Directory(copy_real_collections_to_temp(collection_dirs_to_check))
    /\ UNCHANGED <<extVars, pc, verifierVars, runVars, mockVars, managerVars,
                   collection_dirs_to_check, mock_collections_dir, overlaid>>

\* self.overlay_mock_modules(self.temp_collections_dir)
OverlayMockModules ==
    /\ ~IsNone(temp_collections)
    /\ ~overlaid
    /\ temp_collections' =
           Directory(overlay_mock_modules(temp_collections.files, mock_collections_dir))
    /\ overlaid' = TRUE
    /\ UNCHANGED <<extVars, pc, verifierVars, runVars, mockVars, managerVars,
                   collection_dirs_to_check, mock_collections_dir>>

\* no staging of collections under way
InitTrees ==
    /\ collection_dirs_to_check = <<>>
    /\ mock_collections_dir = Missing
    /\ temp_collections = None
    /\ overlaid = FALSE

(***************************************************************************)
(* The trace-writing callback: CallbackModule of mock_module_tracker.py.   *)
(* Step names are sequences of characters, so that the marker appended to  *)
(* a skipped step is part of the recorded name.  The clock readings        *)
(* (timestamp, start_time) are left out of the records.                    *)
(***************************************************************************)
MaxEvents == 3

\* CallbackModule.__init__
NewTracker ==
    [module_calls |-> Empty, call_details |-> Empty, call_sequence |-> <<>>,
     failed_modules |-> Empty, skipped_modules |-> Empty, errors |-> <<>>]

\* self._increment_module_count(module_name)
_increment_module_count(self, module_name) ==
    [self EXCEPT !.module_calls =
        Assign(@, module_name, Get(@, module_name, 0) + 1)]

\* self._track_module_call(module_name, result)
_track_module_call(self, module_name, result) ==
    LET params == IF "_task" \in DOMAIN result /\ "args" \in DOMAIN result._task
                  THEN result._task.args ELSE Empty
        result_data == IF "_result" \in DOMAIN result THEN result._result ELSE Empty
        call_info == [params |-> params,
                      result |-> result_data,
                      task |-> IF "task_name" \in DOMAIN result
                               THEN result.task_name ELSE "unnamed_task"]
    IN  [self EXCEPT
            !.call_sequence = Append(@, module_name),
            !.call_details =
                Assign(@, module_name, Append(Get(@, module_name, <<>>), call_info))]

\* the message of a failed result: result.result["msg"], replaced by
\* result._result["msg"] when that one is there
error_msg(result) ==
    LET msg == IF "result" \in DOMAIN result /\ "msg" \in DOMAIN result.result
               THEN result.result["msg"] ELSE ""
    IN  IF "_result" \in DOMAIN result /\ "msg" \in DOMAIN result._result
        THEN result._result["msg"] ELSE msg

\* self.v2_runner_on_failed(result)
v2_runner_on_failed(self, result) ==
    LET module_name == result._task.action
        tracked == _track_module_call(_increment_module_count(self, module_name),
                                      module_name, result)
        error_detail == [module |-> module_name,
                         task |-> IF "task_name" \in DOMAIN result
                                  THEN result.task_name ELSE "unnamed_task",
                         message |-> error_msg(result)]
    IN  [tracked EXCEPT
            !.failed_modules = Assign(@, module_name, Get(@, module_name, 0) + 1),
            !.errors = Append(@, error_detail)]

\* self.v2_runner_on_ok(result)
v2_runner_on_ok(self, result) ==
    LET module_name == result._task.action
    IN  _track_module_call(_increment_module_count(self, module_name),
                           module_name, result)

\* f"{module_name}(skipped)"
SkippedName(module_name) ==
    module_name \o <<"(", "s", "k", "i", "p", "p", "e", "d", ")">>

v2_runner_on_skipped_Counted(self, result) ==
    LET module_name == result._task.action
        counted == _increment_module_count(self, module_name)
    IN  [counted EXCEPT
            !.skipped_modules = Assign(@, module_name, Get(@, module_name, 0) + 1),
            !.call_sequence = Append(@, SkippedName(module_name))]

\* self.v2_runner_on_skipped(result)
v2_runner_on_skipped(self, result) ==
    LET module_name == result._task.action
    IN  [self EXCEPT
            !.skipped_modules = Assign(@, module_name, Get(@, module_name, 0) + 1),
            !.call_sequence = Append(@, SkippedName(module_name))]

\* the steps of the playbook the events are about
TrackedModules == {<<"a">>, <<"b">>}

\* the task results ansible hands to the callback: without a message, with
\* a message in _result only, and with the message under both attributes
TaskResults ==
    {[_task |-> [action |-> m, args |-> Empty], _result |-> Empty, task_name |-> "t"]
        : m \in TrackedModules}
    \cup {[_task |-> [action |-> m, args |-> Empty], _result |-> [msg |-> "boom"],
           task_name |-> "t"] : m \in TrackedModules}
    \cup {[_task |-> [action |-> m, args |-> Empty], _result |-> [msg |-> "boom"],
           result |-> [msg |-> "boom"], task_name |-> "t"] : m \in TrackedModules}

\* ansible delivers the result of a task that ran
V2RunnerOnOk ==
    /\ Len(events) < MaxEvents
    /\ \E result \in TaskResults :
           /\ tracker' = v2_runner_on_ok(tracker, result)
           /\ events' = Append(events, [kind |-> "ok", module |-> result._task.action])
    /\ UNCHANGED <<pc, verifierVars, runVars, mockVars, managerVars, treeVars,
                   mockerVars, smtpVars>>

\* ansible delivers the result of a task that failed
V2RunnerOnFailed ==
    /\ Len(events) < MaxEvents
    /\ \E result \in TaskResults :
           /\ tracker' = v2_runner_on_failed(tracker, result)
           /\ events' = Append(events, [kind |-> "failed", module |-> result._task.action])
    /\ UNCHANGED <<pc, verifierVars, runVars, mockVars, managerVars, treeVars,
                   mockerVars, smtpVars>>

\* ansible delivers the result of a task that was skipped
V2RunnerOnSkipped ==
    /\ Len(events) < MaxEvents
    /\ \E result \in TaskResults :
           /\ tracker' = v2_runner_on_skipped(tracker, result)
           /\ events' = Append(events, [kind |-> "skipped", module |-> result._task.action])
    /\ UNCHANGED <<pc, verifierVars, runVars, mockVars, managerVars, treeVars,
                   mockerVars, smtpVars>>

\* a tracker that was constructed and has received no event
InitTracker ==
    /\ tracker = NewTracker
    /\ events = <<>>

(***************************************************************************)
(* The module mocker: ModuleMocker of module_mocker.py.  A path is a       *)
(* sequence of strings, so that the backup path is the path of the module  *)
(* with ".bak" appended.  The search of _find_module_path over the         *)
(* collection directories is one candidate location per module.            *)
(***************************************************************************)
MaxMockerCalls == 3

\* ModuleMocker.__init__; modules_to_mock lists its items in dict order
NewModuleMocker(modules_to_mock) ==
    [modules_to_mock |-> modules_to_mock, original_modules |-> Empty,
     backup_paths |-> Empty]

\* the file of module module_name in the installed collections
ModulePath(module_name) == <<"modules", module_name>>

\* the None that stands for a path that was not found
NoPath == <<>>

\* self._find_module_path(module_name): the path when the file exists
_find_module_path(fs, module_name) ==
    IF ModulePath(module_name) \in DOMAIN fs THEN ModulePath(module_name) ELSE NoPath

\* shutil.copy2(src, dst)
copy2(fs, src, dst) == Assign(fs, dst, fs[src])

\* the body of the loop of setup_mocks for the i-th item of modules_to_mock:
\* the mocker and the files after it
RECURSIVE setup_mocks_from(_, _, _)
setup_mocks_from(self, fs, i) ==
    IF i > Len(self.modules_to_mock) THEN [self |-> self, fs |-> fs]
    ELSE LET module_name == self.modules_to_mock[i].name
             mock_path == self.modules_to_mock[i].path
             original_path == _find_module_path(fs, module_name)
         IN  IF original_path = NoPath \/ mock_path \notin DOMAIN fs
             THEN setup_mocks_from(self, fs, i + 1)
             ELSE LET backup_path == Append(original_path, ".bak")
                      backed == copy2(fs, original_path, backup_path)
                      stored == [self EXCEPT
                                    !.original_modules = Assign(@, module_name, original_path),
                                    !.backup_paths = Assign(@, module_name, backup_path)]
                  IN  setup_mocks_from(stored, copy2(backed, mock_path, original_path), i + 1)

\* self.setup_mocks()
setup_mocks(self, fs) == setup_mocks_from(self, fs, 1)

\* the files after restore_modules handled the modules of the set todo
RECURSIVE restore_modules_of(_, _, _)
restore_modules_of(self, fs, todo) ==
    IF todo = {} THEN fs
    ELSE LET module_name == CHOOSE m \in todo : TRUE
             original_path == self.original_modules[module_name]
             backup_path == Get(self.backup_paths, module_name, NoPath)
         IN  IF backup_path # NoPath /\ backup_path \in DOMAIN fs
             THEN restore_modules_of(self,
                      DictPop(copy2(fs, backup_path, original_path), backup_path),
                      todo \ {module_name})
             ELSE restore_modules_of(self, fs, todo \ {module_name})

\* self.restore_modules()
restore_modules(self, fs) == restore_modules_of(self, fs, DOMAIN self.original_modules)

\* a call of method op of the mocker: the mocker and the files after it
MockerCall(op) ==
    /\ Len(mocker_calls) < MaxMockerCalls
    /\ mocker_calls' = Append(mocker_calls, op)
    /\ UNCHANGED <<pc, verifierVars, runVars, mockVars, managerVars, treeVars,
                   trackerVars, smtpVars, disk_before>>

\* mocker.setup_mocks()
SetupMocks ==
    /\ MockerCall("setup_mocks")
    /\ mocker' = setup_mocks(mocker, disk).self
    /\ disk' = setup_mocks(mocker, disk).fs

\* mocker.restore_modules()
RestoreModules ==
    /\ MockerCall("restore_modules")
    /\ disk' = restore_modules(mocker, disk)
    /\ UNCHANGED mocker

\* with mocker: the block is entered
Enter ==
    /\ MockerCall("__enter__")
    /\ mocker' = setup_mocks(mocker, disk).self
    /\ disk' = setup_mocks(mocker, disk).fs

\* with mocker: the block is left, by its end or by an exception
Exit ==
    /\ "__enter__" \in {mocker_calls[i] : i \in 1..Len(mocker_calls)}
    /\ MockerCall("__exit__")
    /\ disk' = restore_modules(mocker, disk)
    /\ UNCHANGED mocker

\* no module mocker in use
InitMocker ==
    /\ mocker = NewModuleMocker(<<>>)
    /\ disk = Empty
    /\ mocker_calls = <<>>
    /\ disk_before = Empty

(***************************************************************************)
(* The mock SMTP server: MockSMTPHandler.handle_DATA runs in the thread of *)
(* the aiosmtpd controller, reset(), get_messages() and                    *)
(* get_message_count() run in the thread of the test.  Nothing orders the  *)
(* two threads, so every statement that reads or writes the handler is a   *)
(* step of its own; received_count += 1 is a read followed by a write.     *)
(* A message is its number in order of arrival.                            *)
(***************************************************************************)
MaxMessages == 2
MaxTestCalls == 2

\* MockSMTPHandler.__init__
NewHandler == [messages |-> <<>>, received_count |-> 0]

\* the handler thread at a new position
HandlerAt(position) == [threads EXCEPT !.handler.pc = position]

\* the test thread at a new position
TestAt(position) == [threads EXCEPT !.test.pc = position]

\* handle_DATA: self.messages.put(message)
HandleDataPut ==
    /\ threads.handler.pc = "idle"
    /\ smtp_log.begun < MaxMessages
    /\ handler' = [handler EXCEPT !.messages = Append(@, smtp_log.begun + 1)]
    /\ threads' = HandlerAt("count")
    /\ smtp_log' = [smtp_log EXCEPT !.begun = @ + 1]
    /\ UNCHANGED <<pc, verifierVars, runVars, mockVars, managerVars, treeVars,
                   trackerVars, mockerVars>>

\* handle_DATA: the read of self.received_count in self.received_count += 1
HandleDataLoad ==
    /\ threads.handler.pc = "count"
    /\ threads' = [HandlerAt("store") EXCEPT !.handler.loaded = handler.received_count]
    /\ UNCHANGED <<pc, verifierVars, runVars, mockVars, managerVars, treeVars,
                   trackerVars, mockerVars, handler, smtp_log>>

\* handle_DATA: the write of self.received_count and
\* return "250 Message accepted for delivery"
HandleDataStore ==
    /\ threads.handler.pc = "store"
    /\ handler' = [handler EXCEPT !.received_count = threads.handler.loaded + 1]
    /\ threads' = HandlerAt("idle")
    /\ smtp_log' = [smtp_log EXCEPT !.accepted = @ + 1]
    /\ UNCHANGED <<pc, verifierVars, runVars, mockVars, managerVars, treeVars,
                   trackerVars, mockerVars>>

\* the test thread calls a method of the server
TestCall(position) ==
    /\ threads.test.pc = "idle"
    /\ smtp_log.calls < MaxTestCalls
    /\ threads' = [TestAt(position) EXCEPT !.test.messages = <<>>]
    /\ UNCHANGED <<pc, verifierVars, runVars, mockVars, managerVars, treeVars,
                   trackerVars, mockerVars, handler>>

\* server.reset() is called
ResetBegin ==
    /\ TestCall("reset_loop")
    /\ smtp_log' = [smtp_log EXCEPT !.calls = @ + 1,
                                    !.accepted_at_reset_start = smtp_log.accepted]

\* reset: while not self.handler.messages.empty()
ResetLoop ==
    /\ threads.test.pc = "reset_loop"
    /\ threads' = TestAt(IF handler.messages = <<>> THEN "reset_count" ELSE "reset_get")
    /\ UNCHANGED <<pc, verifierVars, runVars, mockVars, managerVars, treeVars,
                   trackerVars, mockerVars, handler, smtp_log>>

\* reset: self.handler.messages.get()
ResetGet ==
    /\ threads.test.pc = "reset_get"
    /\ handler.messages # <<>>
    /\ handler' = [handler EXCEPT !.messages = Tail(@)]
    /\ threads' = TestAt("reset_loop")
    /\ UNCHANGED <<pc, verifierVars, runVars, mockVars, managerVars, treeVars,
                   trackerVars, mockerVars, smtp_log>>

\* reset: self.handler.received_count = 0, and the return
ResetCount ==
    /\ threads.test.pc = "reset_count"
    /\ handler' = [handler EXCEPT !.received_count = 0]
    /\ threads' = TestAt("idle")
    /\ smtp_log' = [smtp_log EXCEPT !.resets = @ + 1,
                                    !.begun_at_reset_end = smtp_log.begun,
                                    !.accepted_at_reset_end = smtp_log.accepted]
    /\ UNCHANGED <<pc, verifierVars, runVars, mockVars, managerVars, treeVars,
                   trackerVars, mockerVars>>

\* server.get_messages() is called
GetMessagesBegin ==
    /\ TestCall("get_loop")
    /\ smtp_log' = [smtp_log EXCEPT !.calls = @ + 1]

\* get_messages: while not self.handler.messages.empty(), and return messages
GetMessagesLoop ==
    /\ threads.test.pc = "get_loop"
    /\ threads' = IF handler.messages = <<>>
                  THEN [TestAt("idle") EXCEPT !.test.returned = threads.test.messages]
                  ELSE TestAt("get_get")
    /\ UNCHANGED <<pc, verifierVars, runVars, mockVars, managerVars, treeVars,
                   trackerVars, mockerVars, handler, smtp_log>>

\* get_messages: messages.append(self.handler.messages.get())
GetMessagesGet ==
    /\ threads.test.pc = "get_get"
    /\ handler.messages # <<>>
    /\ handler' = [handler EXCEPT !.messages = Tail(@)]
    /\ threads' = [TestAt("get_loop") EXCEPT
                      !.test.messages = Append(@, Head(handler.messages))]
    /\ UNCHANGED <<pc, verifierVars, runVars, mockVars, managerVars, treeVars,
                   trackerVars, mockerVars, smtp_log>>

\* server.get_message_count()
GetMessageCount ==
    /\ threads.test.pc = "idle"
    /\ smtp_log.calls < MaxTestCalls
    /\ threads' = [threads EXCEPT !.test.returned = <<handler.received_count>>]
    /\ smtp_log' = [smtp_log EXCEPT !.calls = @ + 1]
    /\ UNCHANGED <<pc, verifierVars, runVars, mockVars, managerVars, treeVars,
                   trackerVars, mockerVars, handler>>

\* a started server that has received nothing, both threads at rest
InitSmtp ==
    /\ handler = NewHandler
    /\ threads = [handler |-> [pc |-> "idle", loaded |-> 0],
                  test |-> [pc |-> "idle", messages |-> <<>>, returned |-> <<>>]]
    /\ smtp_log = [begun |-> 0, accepted |-> 0, calls |-> 0, resets |-> 0,
                   accepted_at_reset_start |-> 0, begun_at_reset_end |-> 0,
                   accepted_at_reset_end |-> 0]

\* the tracker, the module mocker and the SMTP server at rest
InitExt ==
    /\ InitTracker
    /\ InitMocker
    /\ InitSmtp

(***************************************************************************)
(* Specification of the call-sequence strategy: any declared sequence      *)
(* against any trace.                                                      *)
(***************************************************************************)
\* scenarios: no verify block, a verify block without call_sequence, and
\* every declared sequence within the bound
SeqScenarios ==
    {Empty, [verify |-> Empty]}
    \cup {[verify |-> [call_sequence |-> e]] :
              e \in SeqsUpTo(ExpectedModules, MaxExpectedSeq)}

\* traces: without a call_sequence key, and every sequence within the bound
SeqStats ==
    {Empty} \cup {[call_sequence |-> a] : a \in SeqsUpTo(ActualModules, MaxActualSeq)}

\* VerificationStrategy instances right after __init__
InitVerifiers ==
    /\ overall_status = [v \in Verifiers |-> TRUE]
    /\ results = [v \in Verifiers |-> Empty]

InitSeq ==
    /\ pc = OnlyReady("seq")
    /\ scenario_data \in SeqScenarios
    /\ playbook_stats \in SeqStats
    /\ InitVerifiers
    /\ InitRunner /\ run_input = NoRunInput
    /\ InitAdapter
    /\ InitManager
    /\ InitTrees
    /\ InitExt

NextSeq == SequenceVerify

SpecSeq == InitSeq /\ [][NextSeq]_vars

\* the scenario declares verify.call_sequence
SeqDeclared ==
    "verify" \in DOMAIN scenario_data /\ "call_sequence" \in DOMAIN scenario_data["verify"]

\* the k-th smallest element of a set of positions
KthOf(S, k) == CHOOSE i \in S : Cardinality({j \in S : j < i}) = k - 1

\* e is an ordered, not necessarily contiguous subsequence of a: some set of
\* positions of a, read in increasing order, spells e
IsSubsequence(e, a) ==
    \E S \in SUBSET (1..Len(a)) :
        /\ Cardinality(S) = Len(e)
        /\ \A i \in 1..Len(e) : a[KthOf(S, i)] = e[i]

\* C2: CallSequenceVerifier.verify reports _overall_pass = TRUE iff the
\* declared call_sequence is an ordered, not necessarily contiguous
\* subsequence of the trace's call_sequence (repeated names and the empty
\* expected list included).
C2_PassIffSubsequence ==
    (pc["seq"] = "done" /\ SeqDeclared) =>
        (results["seq"]["_overall_pass"]
            <=> IsSubsequence(scenario_data["verify"]["call_sequence"],
                              Get(playbook_stats, "call_sequence", Empty)))

\* a declared sequence passes with other steps between the expected ones
C2_Witness ==
    /\ pc["seq"] = "done" /\ SeqDeclared
    /\ scenario_data["verify"]["call_sequence"] = <<"a", "b", "c">>
    /\ Get(playbook_stats, "call_sequence", Empty) = <<"a", "x", "b", "c">>
    /\ results["seq"]["_overall_pass"]

\* the search the claim states: p[i] is the 1-based position of the last
\* match after expected entry i (0: none yet); an entry is matched at its
\* first occurrence after the previous match, and an entry with no such
\* occurrence leaves the position where it was
SearchPositions(e, a) ==
    LET p[i \in 0..Len(e)] ==
            IF i = 0 THEN 0
            ELSE LET later == {k \in (p[i - 1] + 1)..Len(a) : a[k] = e[i]}
                 IN  IF later = {} THEN p[i - 1]
                     ELSE CHOOSE k \in later : \A j \in later : k <= j
    IN  p

\* C3: an expected entry that is not found neither aborts the check nor
\* moves the search position; errors holds exactly one entry per unmatched
\* expected entry, in expected order.
C3_OneErrorPerMiss ==
    (pc["seq"] = "done" /\ SeqDeclared) =>
        LET e == scenario_data["verify"]["call_sequence"]
            a == Get(playbook_stats, "call_sequence", Empty)
            errors == results["seq"]["errors"]
            p == SearchPositions(e, a)
            missed == {i \in 1..Len(e) : p[i] = p[i - 1]}
        IN  /\ Len(errors) = Cardinality(missed)
            /\ \A k \in 1..Len(errors) :
                   /\ errors[k].missing = e[KthOf(missed, k)]
                   /\ errors[k].after = p[KthOf(missed, k) - 1] - 1

\* expected [a,b,c] against actual [a,x,x,c]: one error, naming b, and c
\* is matched after the miss
C3_Witness ==
    /\ pc["seq"] = "done" /\ SeqDeclared
    /\ scenario_data["verify"]["call_sequence"] = <<"a", "b", "c">>
    /\ Get(playbook_stats, "call_sequence", Empty) = <<"a", "x", "x", "c">>
    /\ results["seq"]["errors"] = <<[missing |-> "b", after |-> 0]>>

(***************************************************************************)
(* Specification of the call-count strategy.                               *)
(***************************************************************************)
\* all dicts from a subset of the keys K to values in V
DictsOver(K, V) == UNION {[D -> V] : D \in SUBSET K}

DeclaredSteps == {"foo", "bar"}
CalledSteps == {"foo", "bar", "baz"}

CountScenarios ==
    {Empty, [verify |-> Empty]}
    \cup {[verify |-> [expected_calls |-> e]] : e \in DictsOver(DeclaredSteps, 0..MaxCount)}

CountStats ==
    {Empty} \cup {[module_calls |-> c] : c \in DictsOver(CalledSteps, 0..MaxCount)}

InitCount ==
    /\ pc = OnlyReady("count")
    /\ scenario_data \in CountScenarios
    /\ playbook_stats \in CountStats
    /\ InitVerifiers
    /\ InitRunner /\ run_input = NoRunInput
    /\ InitAdapter
    /\ InitManager
    /\ InitTrees
    /\ InitExt

NextCount == CountVerify

SpecCount == InitCount /\ [][NextCount]_vars

\* the scenario declares verify.expected_calls
CountDeclared ==
    "verify" \in DOMAIN scenario_data /\ "expected_calls" \in DOMAIN scenario_data["verify"]

\* number of calls of step m recorded in the trace, 0 for a step absent from it
TraceCount(m) ==
    IF "module_calls" \in DOMAIN playbook_stats /\ m \in DOMAIN playbook_stats["module_calls"]
    THEN playbook_stats["module_calls"][m] ELSE 0

\* C4: ModuleCallCountVerifier.verify passes iff every declared count equals
\* the trace's count for that step (0 when the step is absent from the
\* trace); every declared step, and no other step, gets an
\* expected/actual/passed record, also on pass.
C4_CountPassIffAllEqual ==
    (pc["count"] = "done" /\ CountDeclared) =>
        LET expected == scenario_data["verify"]["expected_calls"]
            r == results["count"]
        IN  /\ r["_overall_pass"] <=> (\A m \in DOMAIN expected : expected[m] = TraceCount(m))
            /\ DOMAIN r = DOMAIN expected \cup {"_overall_pass"}
            /\ \A m \in DOMAIN expected :
                   r[m] = [expected |-> expected[m], actual |-> TraceCount(m),
                           passed |-> (expected[m] = TraceCount(m))]

\* expected {foo:2, bar:1} passes against a trace {foo:2, bar:1, baz:1}
\* that also holds an undeclared step
C4_Witness ==
    /\ pc["count"] = "done" /\ CountDeclared
    /\ scenario_data["verify"]["expected_calls"] = [foo |-> 2, bar |-> 1]
    /\ Get(playbook_stats, "module_calls", Empty) = [foo |-> 2, bar |-> 1, baz |-> 1]
    /\ results["count"]["_overall_pass"]
    /\ results["count"]["foo"] = [expected |-> 2, actual |-> 2, passed |-> TRUE]

(***************************************************************************)
(* Specification of the parameter-validation strategy.                     *)
(***************************************************************************)
\* declared parameter sets: p and q each absent or declared
ExpectedParamSets ==
    {pd @@ qd : pd \in {Empty, [p |-> PyInt(1)]},
                qd \in {Empty, [q |-> PyString(<<"1", " ">>)]}}

\* parameters of a recorded invocation: equal, equal only as stripped
\* strings, different, or absent
ActualParamSets ==
    {pd @@ qd : pd \in {Empty, [p |-> PyInt(1)], [p |-> PyInt(2)],
                         [p |-> PyString(<<" ", "1">>)]},
                qd \in {Empty, [q |-> PyString(<<"1">>)]}}

\* foo is declared with every list of parameter sets within the bound; bar
\* is undeclared, declared with an empty list, or declared with one set
ParamScenarios ==
    {Empty, [verify |-> Empty]}
    \cup {[verify |-> [parameter_validation |-> [foo |-> e] @@ b]] :
              e \in SeqsUpTo(ExpectedParamSets, MaxDeclaredCalls),
              b \in {Empty, [bar |-> <<>>], [bar |-> <<[p |-> PyInt(1)]>>]}}

ParamStats ==
    {Empty}
    \cup {[call_details |-> [foo |-> a] @@ b] :
              a \in SeqsUpTo({[params |-> ps] : ps \in ActualParamSets}, MaxTraceCalls),
              b \in {Empty, [bar |-> <<[params |-> [p |-> PyInt(1)]]>>]}}

InitParam ==
    /\ pc = OnlyReady("param")
    /\ scenario_data \in ParamScenarios
    /\ playbook_stats \in ParamStats
    /\ InitVerifiers
    /\ InitRunner /\ run_input = NoRunInput
    /\ InitAdapter
    /\ InitManager
    /\ InitTrees
    /\ InitExt

NextParam == ParameterVerify

SpecParam == InitParam /\ [][NextParam]_vars

\* the scenario declares verify.parameter_validation
ParamDeclared ==
    /\ "verify" \in DOMAIN scenario_data
    /\ "parameter_validation" \in DOMAIN scenario_data["verify"]

\* the trace's invocations of step m
TraceCalls(m) ==
    IF "call_details" \in DOMAIN playbook_stats /\ m \in DOMAIN playbook_stats["call_details"]
    THEN playbook_stats["call_details"][m] ELSE <<>>

\* the declared keys that are absent from the actual parameters or differ
\* from them under str().strip()
BadKeys(expected, actual) ==
    {k \in DOMAIN expected :
        k \notin DOMAIN actual \/ Strip(PyStr(actual[k])) # Strip(PyStr(expected[k]))}

\* the status the claim gives the declared set at 1-based index i of step m
ClaimedStatus(m, i, expected) ==
    IF i > Len(TraceCalls(m)) THEN "missing"
    ELSE IF BadKeys(expected, TraceCalls(m)[i].params) # {} THEN "failed"
    ELSE "passed"

\* C5: ParameterValidationVerifier.verify aligns each declared parameter set
\* with the trace invocation of the same index: 'missing' without such an
\* invocation, 'failed' with one failure entry per declared key that is
\* absent or differs under str().strip(), 'passed' otherwise; a step passes
\* iff all its details passed, the overall result is the AND over the steps,
\* and invocations beyond the declared indices are ignored.
C5_ParamAlignedByIndex ==
    (pc["param"] = "done" /\ ParamDeclared) =>
        LET pv == scenario_data["verify"]["parameter_validation"]
            r == results["param"]
            checked == {m \in DOMAIN pv : pv[m] # <<>>}
        IN  /\ DOMAIN r = checked \cup {"_overall_pass"}
            /\ r["_overall_pass"] <=> (\A m \in checked : r[m].passed)
            /\ \A m \in checked :
                   /\ Len(r[m].details) = Len(pv[m])
                   /\ r[m].passed <=>
                          (\A i \in 1..Len(pv[m]) : ClaimedStatus(m, i, pv[m][i]) = "passed")
                   /\ \A i \in 1..Len(pv[m]) :
                          LET d == r[m].details[i]
                          IN  /\ d.call_index = i - 1
                              /\ d.status = ClaimedStatus(m, i, pv[m][i])
                              /\ d.status # "missing" =>
                                     LET bad == BadKeys(pv[m][i], TraceCalls(m)[i].params)
                                     IN  /\ Len(d.failures) = Cardinality(bad)
                                         /\ {d.failures[j].param :
                                                j \in 1..Len(d.failures)} = bad

\* a declared set with two keys fails on both against the first invocation,
\* the second declared set has no invocation, and the step fails
C5_Witness ==
    /\ pc["param"] = "done" /\ ParamDeclared
    /\ "foo" \in DOMAIN results["param"]
    /\ Len(results["param"]["foo"].details) = 2
    /\ results["param"]["foo"].details[1].status = "failed"
    /\ Len(results["param"]["foo"].details[1].failures) = 2
    /\ results["param"]["foo"].details[2].status = "missing"
    /\ ~results["param"]["foo"].passed
    /\ ~results["param"]["_overall_pass"]

(***************************************************************************)
(* Specification of the error-verification strategy.                       *)
(***************************************************************************)
\* expected error descriptors: message, task and expect_process_failure are
\* each optional
ExpectedErrorSet ==
    {m @@ t @@ f : m \in {Empty, [message |-> <<"a", "b">>]},
                   t \in {Empty, [task |-> <<"t">>]},
                   f \in {Empty, [expect_process_failure |-> TRUE]}}

\* error records of the trace
ActualErrorSet ==
    {[message |-> m, task |-> t] : m \in {<<"x", "a", "b">>, <<"b", "a">>},
                                   t \in {<<"u", "t">>, <<"u">>}}

\* host-level outcome of the trace
RecapSet ==
    {Empty,
     [total_failures |-> 1],
     [play_recap |-> Empty],
     [play_recap |-> [hosts |-> [h1 |-> [failures |-> 0]]]],
     [play_recap |-> [hosts |-> [h1 |-> [failures |-> 1]]]],
     [play_recap |-> [hosts |-> [h1 |-> [ok |-> 1]]]],
     [play_recap |-> [hosts |-> [h1 |-> [failures |-> 0], h2 |-> [failures |-> 2]]]]}

ErrorScenarios ==
    {Empty, [verify |-> Empty]}
    \cup {[verify |-> [expected_errors |-> e]] :
              e \in SeqsUpTo(ExpectedErrorSet, MaxExpectedErrors)}

ErrorStats ==
    {recap @@ errs :
        recap \in RecapSet,
        errs \in {Empty} \cup {[errors |-> a] : a \in SeqsUpTo(ActualErrorSet, MaxActualErrors)}}

InitError ==
    /\ pc = OnlyReady("error")
    /\ scenario_data \in ErrorScenarios
    /\ playbook_stats \in ErrorStats
    /\ InitVerifiers
    /\ InitRunner /\ run_input = NoRunInput
    /\ InitAdapter
    /\ InitManager
    /\ InitTrees
    /\ InitExt

NextError == ErrorVerify

SpecError == InitError /\ [][NextError]_vars

\* the scenario declares verify.expected_errors
ErrorsDeclared ==
    "verify" \in DOMAIN scenario_data /\ "expected_errors" \in DOMAIN scenario_data["verify"]

\* the trace's error list
TraceErrors == IF "errors" \in DOMAIN playbook_stats THEN playbook_stats["errors"] ELSE <<>>

\* n occurs in h as a contiguous substring
IsSubstring(n, h) ==
    \E k \in 0..(Len(h) - Len(n)) : \A i \in 1..Len(n) : h[k + i] = n[i]

\* the trace has an error whose message contains the expected message and,
\* when a task is declared, whose task contains the expected task
Matched(e) ==
    \E j \in 1..Len(TraceErrors) :
        /\ IsSubstring(IF "message" \in DOMAIN e THEN e.message ELSE <<>>,
                       TraceErrors[j].message)
        /\ "task" \in DOMAIN e => IsSubstring(e.task, TraceErrors[j].task)

\* some host of play_recap has failures: the host failure sum is above 0
SomeHostFailed ==
    /\ "play_recap" \in DOMAIN playbook_stats
    /\ "hosts" \in DOMAIN playbook_stats["play_recap"]
    /\ \E h \in DOMAIN playbook_stats["play_recap"]["hosts"] :
           /\ "failures" \in DOMAIN playbook_stats["play_recap"]["hosts"][h]
           /\ playbook_stats["play_recap"]["hosts"][h].failures > 0

\* some declared error has expect_process_failure true
FailureExpected(expected_errors) ==
    \E i \in 1..Len(expected_errors) :
        /\ "expect_process_failure" \in DOMAIN expected_errors[i]
        /\ expected_errors[i].expect_process_failure

\* C6 as stated: for every declared expected_errors list, the empty list
\* included, verify passes iff every declared error is found and the
\* process-failure agreement holds.
C6_AsClaimed ==
    (pc["error"] = "done" /\ ErrorsDeclared) =>
        LET ee == scenario_data["verify"]["expected_errors"]
        IN  results["error"]["_overall_pass"]
                <=> /\ \A i \in 1..Len(ee) : Matched(ee[i])
                    /\ FailureExpected(ee) <=> SomeHostFailed

\* C6 (amended): when at least one expected error is declared,
\* ErrorVerifier.verify passes iff every declared error is found and
\* "some declared error expects process failure" agrees with "the sum of
\* host failures of play_recap is above 0"; the agreement is recorded in
\* process_failure.  An empty expected_errors list passes without checks.
C6_PassIffFoundAndAgreement ==
    (pc["error"] = "done" /\ ErrorsDeclared) =>
        LET ee == scenario_data["verify"]["expected_errors"]
            r == results["error"]
        IN  IF ee = <<>> THEN r["_overall_pass"] /\ "process_failure" \notin DOMAIN r
            ELSE /\ r["_overall_pass"]
                        <=> /\ \A i \in 1..Len(ee) : r.error_checks[i].found
                            /\ FailureExpected(ee) <=> SomeHostFailed
                 /\ r.process_failure =
                        [expected |-> FailureExpected(ee), actual |-> SomeHostFailed,
                         passed |-> (FailureExpected(ee) <=> SomeHostFailed)]

\* the expectation asks for process failure, its message and task match, no
\* host failed: found, but the agreement and the overall result fail
C6_Witness ==
    /\ pc["error"] = "done" /\ ErrorsDeclared
    /\ scenario_data["verify"]["expected_errors"]
           = <<[message |-> <<"a", "b">>, task |-> <<"t">>, expect_process_failure |-> TRUE]>>
    /\ ~SomeHostFailed
    /\ results["error"].error_checks[1].found
    /\ ~results["error"].process_failure.passed
    /\ ~results["error"]["_overall_pass"]

\* C7: a declared expected error is recorded as found iff the trace has an
\* error whose message contains the expected message and, when a task is
\* declared, whose task contains the expected task; one record per declared
\* error, in declaration order.
C7_FoundIffSubstringMatch ==
    (pc["error"] = "done" /\ ErrorsDeclared) =>
        LET ee == scenario_data["verify"]["expected_errors"]
            checks == results["error"].error_checks
        IN  /\ Len(checks) = Len(ee)
            /\ \A i \in 1..Len(ee) :
                   /\ checks[i].found <=> Matched(ee[i])
                   /\ checks[i].expected_message
                          = (IF "message" \in DOMAIN ee[i] THEN ee[i].message ELSE <<>>)
                   /\ checks[i].expected_task
                          = (IF "task" \in DOMAIN ee[i] THEN ee[i].task ELSE <<>>)

\* two declared errors: the first is found by substring match of message
\* and task, the second is not found because no task matches
C7_Witness ==
    /\ pc["error"] = "done" /\ ErrorsDeclared
    /\ scenario_data["verify"]["expected_errors"]
           = <<[message |-> <<"a", "b">>], [message |-> <<"a", "b">>, task |-> <<"t">>]>>
    /\ TraceErrors = <<[message |-> <<"x", "a", "b">>, task |-> <<"u">>]>>
    /\ results["error"].error_checks[1].found
    /\ ~results["error"].error_checks[2].found

(***************************************************************************)
(* Specification of the orchestrator: one call of                          *)
(* run_playbook_with_scenario on a new PlaybookRunner.                     *)
(***************************************************************************)
\* the step of the call that fails, if any
Faults ==
    {"none", "playbook_missing", "scenario_missing", "scenario_malformed",
     "copy", "overlay", "mock_configs", "runner", "verify"}

\* return codes of the external runner
ReturnCodes == {0, 2}

\* the calls of the orchestrator on a file system where rmtree works
RunInputs ==
    [fault : Faults, keep_mocks : BOOLEAN, use_virtualenv : BOOLEAN, rc : ReturnCodes,
     rmtree_fails : {FALSE}]

\* scenarios of the orchestrator: each assertion kind absent or declared
RunVerifyBlocks ==
    {c @@ p @@ q @@ e :
        c \in {Empty, [expected_calls |-> [foo |-> 1]]},
        p \in {Empty, [parameter_validation |-> [foo |-> <<[p |-> PyInt(1)]>>]]},
        q \in {Empty, [call_sequence |-> <<"foo", "bar">>],
                      [call_sequence |-> <<"bar", "foo">>]},
        e \in {Empty, [expected_errors |-> <<>>],
                      [expected_errors |-> <<[message |-> <<"a", "b">>]>>],
                      [expected_errors |-> <<[message |-> <<"a", "b">>],
                                             [task |-> <<"t">>,
                                              expect_process_failure |-> TRUE]>>]}}

RunScenarios ==
    {m @@ v : m \in {Empty, [service_mocks |-> [foo |-> [changed |-> TRUE]]]},
              v \in {Empty} \cup {[verify |-> b] : b \in RunVerifyBlocks}}

\* traces of the orchestrator; the empty trace is the missing trace file
RunStats ==
    {Empty}
    \cup {[call_sequence |-> <<"foo", "bar">>] @@ c @@ d @@ e :
              c \in {Empty, [module_calls |-> [foo |-> 1]]},
              d \in {[call_details |-> [foo |-> <<[params |-> [p |-> PyInt(1)]]>>]],
                     [call_details |-> [foo |-> <<[params |-> [p |-> PyInt(2)]]>>]]},
              e \in {Empty,
                     [errors |-> <<[message |-> <<"x", "a", "b">>, task |-> <<"u", "t">>]>>,
                      play_recap |-> [hosts |-> [h1 |-> [failures |-> 1]]]],
                     [errors |-> <<[message |-> <<"x", "a", "b">>, task |-> <<"u", "t">>]>>,
                      play_recap |-> [hosts |-> [h1 |-> [failures |-> 0]]]]}}

InitRun ==
    /\ pc = OnlyReady("run")
    /\ scenario_data \in RunScenarios
    /\ playbook_stats \in RunStats
    /\ InitVerifiers
    /\ InitRunner
    /\ InitAdapter
    /\ InitManager
    /\ InitTrees
    /\ InitExt
    /\ run_input \in RunInputs

NextRun == RunPlaybookWithScenario

SpecRun == InitRun /\ [][NextRun]_vars

\* the call went through running the playbook and verifying the trace
RanAndVerified == pc["run"] = "done" /\ run_input.fault = "none"

\* at least one entry of verify.expected_errors has expect_process_failure true
ExpectedFailure ==
    /\ "verify" \in DOMAIN scenario_data
    /\ "expected_errors" \in DOMAIN scenario_data["verify"]
    /\ FailureExpected(scenario_data["verify"]["expected_errors"])

\* get_status() of every strategy of the scenario after run_verifiers
AllStrategiesPass ==
    \A v \in Verifiers :
        ("verify" \in DOMAIN scenario_data /\ StrategyKey[v] \in DOMAIN scenario_data["verify"])
            => StrategyStatus(v, scenario_data, playbook_stats, TRUE)

\* C1: run_playbook_with_scenario returns overall success =
\* (expected_failure XOR playbook_success) AND verification_passed, where
\* expected_failure is "some expected error has expect_process_failure",
\* playbook_success is "the runner return code is 0" and
\* verification_passed is the AND of get_status() over the strategies.
C1_OverallSuccess ==
    RanAndVerified =>
        /\ returned.details.expected_failure = ExpectedFailure
        /\ returned.details.playbook_success = (run_input.rc = 0)
        /\ returned.details.verification_passed = AllStrategiesPass
        /\ returned.success
               = (/\ ExpectedFailure # (run_input.rc = 0)
                  /\ AllStrategiesPass)

\* an expected failure with a failing run and passing verification succeeds
C1_Witness ==
    /\ RanAndVerified
    /\ ExpectedFailure /\ run_input.rc # 0 /\ AllStrategiesPass
    /\ Len(create_strategies(scenario_data)) > 1
    /\ returned.success

(***************************************************************************)
(* Specification of the vacuous pass: one call of one operation on a       *)
(* scenario without a verify block, or with a verify block that declares   *)
(* at most one kind of assertion, against any trace of the other           *)
(* specifications.                                                         *)
(***************************************************************************)
VacuousScenarios ==
    {Empty, [service_mocks |-> [foo |-> [changed |-> TRUE]]], [verify |-> Empty]}
    \cup {[verify |-> b] : b \in {v \in RunVerifyBlocks : Cardinality(DOMAIN v) = 1}}

AllStats == SeqStats \cup CountStats \cup ParamStats \cup ErrorStats \cup RunStats

InitVacuous ==
    /\ pc \in {OnlyReady(op) : op \in Verifiers \cup {"run"}}
    /\ scenario_data \in VacuousScenarios
    /\ playbook_stats \in IF pc["run"] = "ready" THEN RunStats ELSE AllStats
    /\ InitVerifiers
    /\ InitRunner
    /\ InitAdapter
    /\ InitManager
    /\ InitTrees
    /\ InitExt
    /\ run_input \in IF pc["run"] = "ready"
                      THEN {i \in RunInputs : i.fault = "none"}
                      ELSE {NoRunInput}

NextVacuous ==
    \/ CountVerify
    \/ ParameterVerify
    \/ SequenceVerify
    \/ ErrorVerify
    \/ RunPlaybookWithScenario

SpecVacuous == InitVacuous /\ [][NextVacuous]_vars

\* the scenario has a verify block declaring the assertions of strategy v
Declares(v) ==
    "verify" \in DOMAIN scenario_data /\ StrategyKey[v] \in DOMAIN scenario_data["verify"]

MaxMockEntries == 2

\* values of a task_parameters entry and of a module parameter: an integer
\* and the string of its digits, and a different string
MatchValues == {PyInt(1), PyString(<<"1">>), PyString(<<"2">>)}

\* the fields of an entry besides the match predicate
ResponsePayloads ==
    {[msg |-> "first", changed |-> TRUE],
     [msg |-> "second", changed |-> FALSE, success |-> FALSE]}

\* predicates over name, with or without a predicate on state
TaskParameterSets ==
    {n @@ t : n \in DictsOver({"name"}, MatchValues),
              t \in DictsOver({"state"}, {PyString(<<"2">>)})}

MockEntries ==
    {tp @@ r : tp \in {Empty} \cup {[task_parameters |-> t] : t \in TaskParameterSets},
               r \in ResponsePayloads}

MockConfigs ==
    {[list |-> l] : l \in SeqsUpTo(MockEntries, MaxMockEntries)}
    \cup {[dict |-> e] : e \in MockEntries}

ModuleParamSets ==
    {n @@ t : n \in DictsOver({"name"}, MatchValues),
              t \in DictsOver({"state"}, {PyString(<<"1">>), PyString(<<"2">>)})}

\* the steps a scenario may give a mock table entry, two of them with the
\* same environment variable name
MockSteps == {<<"a", ".", "b">>, <<"a", "_", "b">>, <<"b">>}

\* mock table entries: a single response, a candidate list, an empty list
MockTableEntries ==
    {[dict |-> [changed |-> TRUE]],
     [dict |-> [success |-> FALSE, error_message |-> "boom"]],
     [list |-> <<>>]}

\* scenarios without a mock table and with a table for some of the steps
MockScenarios ==
    {Empty} \cup {[service_mocks |-> t] : t \in DictsOver(MockSteps, MockTableEntries)}

InitMock ==
    /\ playbook_stats = Empty
    /\ InitVerifiers
    /\ InitRunner /\ run_input = NoRunInput
    /\ response_data = Empty
    /\ module_exit = Empty
    /\ InitManager
    /\ InitTrees
    /\ InitExt
    /\ \/ /\ pc = OnlyReady("mock")
          /\ scenario_data = Empty
          /\ mock_config \in MockConfigs
          /\ module_params \in ModuleParamSets
          /\ mock_call = Empty
       \/ /\ pc = OnlyReady("mock_response")
          /\ scenario_data \in MockScenarios
          /\ mock_config = Empty
          /\ module_params = Empty
          /\ mock_call \in {[module_name |-> n] : n \in MockSteps}

NextMock == GetResponseData \/ GetMockResponse

SpecMock == InitMock /\ [][NextMock]_vars

\* get_response_data was called on a list and handed back a response
AnsweredFromList ==
    /\ pc["mock"] = "done"
    /\ "list" \in DOMAIN mock_config
    /\ "returned" \in DOMAIN response_data

\* two parameter values are equal once stringified
EqualAsStrings(a, b) ==
    IF "int" \in DOMAIN a
    THEN IF "int" \in DOMAIN b THEN a.int = b.int ELSE b.str = IntToStr(a.int)
    ELSE IF "int" \in DOMAIN b THEN a.str = IntToStr(b.int) ELSE a.str = b.str

\* the i-th candidate carries a predicate that the module parameters satisfy
Matches(i) ==
    /\ "task_parameters" \in DOMAIN mock_config.list[i]
    /\ \A k \in DOMAIN mock_config.list[i]["task_parameters"] :
           /\ k \in DOMAIN module_params
           /\ EqualAsStrings(module_params[k], mock_config.list[i]["task_parameters"][k])

\* the response fields of a dict, the match predicate aside
Payload(d) == [k \in DOMAIN d \ {"task_parameters"} |-> d[k]]

\* C9: on a non-empty list of candidates get_response_data answers with the
\* earliest entry, in declaration order, whose task_parameters are all
\* present in the module parameters with values equal as strings, whatever
\* later and more specific entries also match; when no entry matches, among
\* them every entry without task_parameters, it answers with the first entry.
C9_FirstMatchWins ==
    AnsweredFromList =>
        LET n == Len(mock_config.list)
        IN  /\ \A i \in 1..n :
                   (Matches(i) /\ \A j \in 1..(i - 1) : ~Matches(j)) =>
                       Payload(response_data.returned) = Payload(mock_config.list[i])
            /\ (\A i \in 1..n : ~Matches(i)) =>
                   Payload(response_data.returned) = Payload(mock_config.list[1])

\* the second candidate matches on name only, through the coercion of the
\* integer 1 to "1", and is the answer although the first one is the default
C9_Witness ==
    /\ AnsweredFromList
    /\ Len(mock_config.list) = 2
    /\ ~Matches(1)
    /\ Matches(2)
    /\ mock_config.list[2]["task_parameters"] = [name |-> PyInt(1)]
    /\ module_params["name"] = PyString(<<"1">>)
    /\ Payload(mock_config.list[1]) # Payload(mock_config.list[2])
    /\ Payload(response_data.returned) = Payload(mock_config.list[2])

\* C10: whatever the candidate list and the module parameters, the response
\* of get_response_data has no task_parameters key, be it the matching entry
\* or the default first entry.
C10_PredicateNeverReturned ==
    AnsweredFromList => "task_parameters" \notin DOMAIN response_data.returned

(***************************************************************************)
(* Specification of a mocked module: one call of run_mock_module in an     *)
(* environment and on a file system prepared, or not, for the module.      *)
(***************************************************************************)
\* responses with and without the success key
ModulePayloads ==
    ResponsePayloads
    \cup {[success |-> FALSE, error_message |-> "boom"],
          [success |-> TRUE, msg |-> "ok"],
          [success |-> FALSE]}

ModuleEntries ==
    {tp @@ r : tp \in {Empty, [task_parameters |-> [name |-> PyInt(1)]],
                       [task_parameters |-> [name |-> PyString(<<"2">>)]]},
               r \in ModulePayloads}

\* what the mock config file of the module holds
ModuleConfigs ==
    {[list |-> l] : l \in SeqsUpTo(ModuleEntries, MaxMockEntries)}
    \cup {[dict |-> r] : r \in ModulePayloads \cup {Empty}}

\* the module called and another module that was mocked
MockedModule == <<"a", ".", "b">>
OtherModule == <<"b">>

\* the environment and the file system prepared for MockedModule
PreparedEnv == ConfigVarName(MockedModule) :> ConfigFilePath("temp_dir", MockedModule)
PreparedFiles(config) == ConfigFilePath("temp_dir", MockedModule) :> [json |-> config]

\* calls going wrong before the response is resolved: no variable for the
\* module, no file at the path, a file that is not JSON
UnpreparedCalls ==
    {[module_name |-> OtherModule, env |-> PreparedEnv,
      files |-> PreparedFiles([dict |-> [changed |-> TRUE]])],
     [module_name |-> MockedModule, env |-> Empty,
      files |-> PreparedFiles([dict |-> [changed |-> TRUE]])],
     [module_name |-> MockedModule, env |-> PreparedEnv, files |-> Empty],
     [module_name |-> MockedModule, env |-> PreparedEnv,
      files |-> ConfigFilePath("temp_dir", MockedModule) :> [text |-> "not json"]]}

InitModule ==
    /\ pc = OnlyReady("mock_module")
    /\ scenario_data = Empty
    /\ playbook_stats = Empty
    /\ InitVerifiers
    /\ InitRunner /\ run_input = NoRunInput
    /\ mock_config \in ModuleConfigs
    /\ module_params \in ModuleParamSets
    /\ response_data = Empty
    /\ mock_call \in {[module_name |-> MockedModule, env |-> PreparedEnv,
                       files |-> PreparedFiles(mock_config)]}
                     \cup (IF mock_config = [dict |-> [success |-> TRUE, msg |-> "ok"]]
                           THEN UnpreparedCalls ELSE {})
    /\ module_exit = Empty
    /\ InitManager
    /\ InitTrees
    /\ InitExt

NextModule == RunMockModule

SpecModule == InitModule /\ [][NextModule]_vars

\* run_mock_module loaded a configuration and resolved a response from it
Resolved ==
    /\ pc["mock_module"] = "done"
    /\ mock_call.module_name = MockedModule
    /\ mock_call.env = PreparedEnv
    /\ mock_call.files = PreparedFiles(mock_config)
    /\ Truthy(mock_config)
    /\ "returned" \in DOMAIN get_response_data(mock_config, module_params)

ResolvedResponse == get_response_data(mock_config, module_params).returned

\* C11: a resolved response with success = false makes the module fail with
\* every remaining field of the response among the failure details; a
\* response with success = true or without success makes it exit
\* successfully with the remaining fields; either way the payload handed to
\* the module exit has no success key.
C11_SuccessKeyControlsExit ==
    Resolved =>
        LET r == ResolvedResponse
            must_fail == "success" \in DOMAIN r /\ r["success"] = FALSE
        IN  /\ "call" \in DOMAIN module_exit
            /\ module_exit.call = IF must_fail THEN "fail_json" ELSE "exit_json"
            /\ "success" \notin DOMAIN module_exit.kwargs
            /\ \A k \in DOMAIN r \ {"success"} :
                   k \in DOMAIN module_exit.kwargs /\ module_exit.kwargs[k] = r[k]
            /\ ~must_fail => DOMAIN module_exit.kwargs = DOMAIN r \ {"success"}

\* C12: get_response_data raises on an empty candidate list and hands back
\* no response; a configuration that is not a list is handed back verbatim;
\* get_mock_response answers a step without an entry in service_mocks with
\* the assume-success default {success: true}.
C12_ResolutionErrorConditions ==
    /\ (pc["mock"] = "done" /\ mock_config = [list |-> <<>>]) =>
           /\ "returned" \notin DOMAIN response_data
           /\ "raised" \in DOMAIN response_data
    /\ (pc["mock"] = "done" /\ "dict" \in DOMAIN mock_config) =>
           response_data = [returned |-> mock_config.dict]
    /\ (/\ pc["mock_response"] = "done"
        /\ mock_call.module_name \notin DOMAIN Get(scenario_data, "service_mocks", Empty)) =>
           response_data = [returned |-> [dict |-> [success |-> TRUE]]]

\* the empty list raised IndexError although the module has parameters
C12_Witness ==
    /\ pc["mock"] = "done"
    /\ mock_config = [list |-> <<>>]
    /\ module_params # Empty
    /\ response_data = IndexError

(***************************************************************************)
(* Claims about the exits of run_playbook_with_scenario, checked under     *)
(* SpecRun.                                                                *)
(***************************************************************************)
\* the call is over
RunEnded == pc["run"] = "done"

\* the call got as far as creating the staging directory
StagingCreated == \E i \in 1..Len(steps) : steps[i] = "mkdir"

\* the steps of the scenario that got a mock config file
MockedSteps == DOMAIN Get(scenario_data, "service_mocks", Empty)

\* C13: a call that created the staging directory and has keep_mocks =
\* false ends, by return, by failure result or by an exception of any later
\* step, with the staging directory and all mock config files removed; with
\* keep_mocks = true nothing is removed.
C13_CleanupOnEveryExit ==
    (RunEnded /\ StagingCreated) =>
        IF run_input.keep_mocks
        THEN staging.dir
        ELSE staging = NoStaging

\* C14: when the external runner raises, the call returns (False, details)
\* with the exception text in details, no exception leaves the call, and
\* the staging area is cleaned up unless keep_mocks.
C14_RunnerExceptionCaught ==
    (RunEnded /\ run_input.fault = "runner") =>
        /\ returned.raised = FALSE
        /\ returned.success = FALSE
        /\ returned.details = [error |-> "runner raised"]
        /\ IF run_input.keep_mocks
           THEN staging = [dir |-> TRUE, mock_configs |-> MockedSteps]
           ELSE /\ staging = NoStaging
                /\ steps[Len(steps)] = "cleanup"
                /\ runner.temp_dir = "None"

\* the runner raised after mock configs were written, and they are gone
C14_Witness ==
    /\ RunEnded
    /\ run_input.fault = "runner"
    /\ ~run_input.keep_mocks
    /\ MockedSteps # {}
    /\ \E i \in 1..Len(steps) : steps[i] = "run"
    /\ returned.success = FALSE
    /\ staging.mock_configs = {}

\* C15: a missing playbook, a missing scenario and a malformed scenario
\* document are returned as (False, {error: message}), never raised, and no
\* staging directory is created, no mock config written, no runner invoked.
C15_InputErrorsReturned ==
    (RunEnded /\ run_input.fault \in {"playbook_missing", "scenario_missing",
                                      "scenario_malformed"}) =>
        /\ returned.raised = FALSE
        /\ returned.success = FALSE
        /\ DOMAIN returned.details = {"error"}
        /\ staging = NoStaging
        /\ runner = NewRunner
        /\ \A i \in 1..Len(steps) :
               steps[i] \notin {"mkdir", "create_mock_configs", "run"}

\* the steps of one complete cycle, in order
FullCycle ==
    <<"load_scenario", "mkdir", "copy_real_collections", "overlay_mock_modules",
      "create_mock_configs", "set_env_vars", "run", "playbook_statistics",
      "run_verifiers", "cleanup">>

\* s is an initial part of t
IsPrefix(s, t) == Len(s) <= Len(t) /\ SubSeq(t, 1, Len(s)) = s

\* s without its entries equal to x
RECURSIVE Without(_, _)
Without(s, x) ==
    IF s = <<>> THEN <<>>
    ELSE IF Head(s) = x THEN Without(Tail(s), x)
    ELSE <<Head(s)>> \o Without(Tail(s), x)

CleanupInputs ==
    [fault : {"none", "playbook_missing", "copy", "runner"}, keep_mocks : BOOLEAN,
     use_virtualenv : {FALSE}, rc : ReturnCodes, rmtree_fails : BOOLEAN]

CleanupScenarios ==
    {Empty,
     [service_mocks |-> [foo |-> [changed |-> TRUE]],
      verify |-> [expected_calls |-> [foo |-> 1]]]}

CleanupStats == {Empty, [module_calls |-> [foo |-> 1]]}

InitCleanup ==
    /\ InitVerifiers
    /\ InitRunner
    /\ InitAdapter
    /\ InitManager
    /\ InitTrees
    /\ InitExt
    /\ \/ /\ pc = OnlyReady("run")
          /\ scenario_data \in CleanupScenarios
          /\ playbook_stats \in CleanupStats
          /\ run_input \in CleanupInputs
       \/ /\ pc = [o \in Ops |-> "idle"]
          /\ scenario_data = Empty
          /\ playbook_stats = Empty
          /\ run_input = NoRunInput

NextCleanup == RunPlaybookWithScenario \/ Cleanup

SpecCleanup == InitCleanup /\ [][NextCleanup]_vars

\* the verdict of a complete run, from the scenario, the return code and
\* the strategies
Verdict == (ExpectedFailure # (run_input.rc = 0)) /\ AllStrategiesPass

StepChars == {"a", "1", ".", "-"}

StepIds == SeqsUpTo(StepChars, MaxStepLen) \ {<<>>}

\* another mocked step
OtherStep == <<"b">>

\* list(service_mocks.keys()): one mocked step, or two
MockedStepLists ==
    {<<n>> : n \in StepIds} \cup {<<n, OtherStep>> : n \in StepIds}

\* os.environ.copy() before set_env_vars
BaseEnv == <<"P", "A", "T", "H">> :> [text |-> "/usr/bin"]

InitEnv ==
    /\ pc = [o \in Ops |-> "idle"]
    /\ playbook_stats = Empty
    /\ InitVerifiers
    /\ InitRunner /\ run_input = NoRunInput
    /\ InitAdapter
    /\ manager = NewManager("temp_dir")
    /\ mock_files = Empty
    /\ env = BaseEnv
    /\ os_environ = BaseEnv
    /\ InitTrees
    /\ InitExt
    /\ \E names \in MockedStepLists :
           /\ scenario_data =
                  [service_mocks |->
                      [n \in {names[i] : i \in 1..Len(names)} |-> [dict |-> [changed |-> TRUE]]]]
           /\ calls = <<[op |-> "create_mock_configs", module_names |-> names],
                        [op |-> "set_env_vars"]>>

NextEnv == CreateMockConfigs \/ SetEnvVars

SpecEnv == InitEnv /\ [][NextEnv]_vars

\* the mock configs are written and the environment variables are set
EnvSet == calls = <<>> /\ manager # Empty /\ env # Empty

\* the steps the manager has a mock config for
ConfiguredSteps == {manager.module_configs[i].module_name : i \in 1..Len(manager.module_configs)}

\* letters and digits
Alphanumeric == {"a", "b", "1", "A", "B"}

\* the step identifier with every non-alphanumeric character replaced by
\* an underscore, then upper-cased
SanitizedId(step) ==
    [i \in 1..Len(step) |->
        LET c == IF step[i] \in Alphanumeric THEN step[i] ELSE "_"
        IN  CASE c = "a" -> "A" [] c = "b" -> "B" [] OTHER -> c]

\* C18: for every step identifier, the variables set for a mocked step are
\* ANSIBLE_MOCK_<ID>_CONFIG, holding the path of its mock config, and
\* ANSIBLE_MOCK_<ID>_ENABLED, holding "true", with <ID> the identifier with
\* every non-alphanumeric character replaced by an underscore and then
\* upper-cased.
C18_EnvVarNames ==
    EnvSet =>
        /\ \A step \in ConfiguredSteps :
               /\ MockPrefix \o SanitizedId(step) \o ConfigSuffix \in DOMAIN env
               /\ env[MockPrefix \o SanitizedId(step) \o ConfigSuffix]
                      = ConfigFilePath(manager.temp_dir, step)
               /\ MockPrefix \o SanitizedId(step) \o EnabledSuffix \in DOMAIN env
               /\ env[MockPrefix \o SanitizedId(step) \o EnabledSuffix] = [text |-> "true"]
        /\ DOMAIN env \ DOMAIN BaseEnv =
               UNION {{MockPrefix \o SanitizedId(step) \o ConfigSuffix,
                       MockPrefix \o SanitizedId(step) \o EnabledSuffix} :
                      step \in ConfiguredSteps}

(***************************************************************************)
(* Specification of the mock configuration manager: one manager receives   *)
(* a sequence of calls of create_mock_configs, set_env_vars and cleanup.   *)
(***************************************************************************)
StepA == <<"a">>

StepB == <<"b">>

\* the module_names of one create_mock_configs call
ModuleNameLists ==
    {<<>>, <<StepA>>, <<StepB>>, <<StepA, StepB>>, <<StepB, StepA>>, <<StepA, StepA>>}

\* the mock config files os.remove may fail on
LockedSets == SUBSET {ConfigFilePath("temp_dir", StepA), ConfigFilePath("temp_dir", StepB)}

ManagerCalls ==
    {[op |-> "create_mock_configs", module_names |-> names] : names \in ModuleNameLists}
        \cup {[op |-> "set_env_vars"]}
        \cup {[op |-> "cleanup", locked |-> locked] : locked \in LockedSets}

\* mock tables: both steps, one step, none
ManagerScenarios ==
    {[service_mocks |-> StepA :> [dict |-> [changed |-> TRUE]]
                        @@ StepB :> [list |-> <<[response |-> [rc |-> PyInt(1)]]>>]],
     [service_mocks |-> StepA :> [dict |-> [success |-> FALSE]]],
     [service_mocks |-> Empty]}

InitManagerCalls ==
    /\ pc = [o \in Ops |-> "idle"]
    /\ playbook_stats = Empty
    /\ InitVerifiers
    /\ InitRunner /\ run_input = NoRunInput
    /\ InitAdapter
    /\ manager = NewManager("temp_dir")
    /\ mock_files = Empty
    /\ env = BaseEnv
    /\ os_environ = BaseEnv
    /\ InitTrees
    /\ InitExt
    /\ scenario_data \in ManagerScenarios
    /\ calls \in SeqsUpTo(ManagerCalls, MaxManagerCalls)

NextManager == CreateMockConfigs \/ SetEnvVars \/ ManagerCleanup

SpecManager == InitManagerCalls /\ [][NextManager]_vars

\* the set of elements of a sequence
Range(seq) == {seq[i] : i \in 1..Len(seq)}

\* the paths module_configs holds, by step
ConfiguredPath(self, step) ==
    LET i == CHOOSE i \in 1..Len(self.module_configs) : self.module_configs[i].module_name = step
    IN  self.module_configs[i].file_path

\* create_mock_configs has written, for every step of module_names, one
\* file <staging root>/<step>_mock_config.json holding the mock response of
\* the scenario for that step, and module_configs maps the step to the file
FilesWritten ==
    \A step \in Range(Head(calls).module_names) :
        LET file_path == ConfigFilePath(manager.temp_dir, step)
        IN  /\ file_path \in DOMAIN mock_files'
            /\ mock_files'[file_path] = [json |-> get_mock_response(scenario_data, step)]
            /\ step \in DOMAIN scenario_data.service_mocks
                   => mock_files'[file_path] = [json |-> scenario_data.service_mocks[step]]
            /\ step \in {manager'.module_configs[i].module_name :
                            i \in 1..Len(manager'.module_configs)}
            /\ ConfiguredPath(manager', step) = file_path

\* the files written by the create_mock_configs calls so far
Tracked == Range(manager.module_temp_files)

\* C19 as stated: create_mock_configs writes the file of every step of
\* module_names and module_configs maps exactly the steps of module_names;
\* after cleanup() no file created by an earlier call exists.
C19_AsClaimed ==
    [][/\ CreateMockConfigs =>
              /\ FilesWritten
              /\ {manager'.module_configs[i].module_name :
                     i \in 1..Len(manager'.module_configs)} = Range(Head(calls).module_names)
       /\ ManagerCleanup => \A file_path \in Tracked : file_path \notin DOMAIN mock_files'
      ]_vars

\* C19 (amended): for every step in module_names, create_mock_configs
\* writes one file <staging root>/<step>_mock_config.json whose JSON content
\* equals the mock response of the scenario for that step (its mock table
\* entry when it has one), and module_configs maps exactly the steps of this
\* and of the earlier calls to their paths; after cleanup() every file
\* created by an earlier create_mock_configs call that os.remove did not
\* fail on no longer exists, and the others are left as they were.
C19_MockConfigFiles ==
    [][/\ CreateMockConfigs =>
              /\ FilesWritten
              /\ {manager'.module_configs[i].module_name :
                     i \in 1..Len(manager'.module_configs)}
                     = ConfiguredSteps \cup Range(Head(calls).module_names)
              /\ Range(manager'.module_temp_files)
                     = Tracked \cup {ConfigFilePath(manager.temp_dir, step) :
                                       step \in Range(Head(calls).module_names)}
       /\ ManagerCleanup =>
              /\ \A file_path \in Tracked \ Head(calls).locked :
                     file_path \notin DOMAIN mock_files'
              /\ \A file_path \in DOMAIN mock_files \cap Head(calls).locked :
                     /\ file_path \in DOMAIN mock_files'
                     /\ mock_files'[file_path] = mock_files[file_path]
      ]_vars

\* two calls of create_mock_configs have written the files of two steps and
\* cleanup has removed both
C19_Witness ==
    /\ calls = <<>>
    /\ Len(manager.module_temp_files) = 2
    /\ ConfiguredSteps = {StepA, StepB}
    /\ Len(manager.module_configs) = 2
    /\ mock_files = Empty
    /\ env = BaseEnv

(***************************************************************************)
(* Specification of the staging of the collections: the copy of the real   *)
(* collections followed by the overlay of the mock collections.            *)
(***************************************************************************)
\* relative paths: a file at the top of the collections directory, files
\* of two collections, one of them in a subdirectory
TreePaths ==
    {<<"README">>, <<"ns", "m.py">>, <<"ns", "n.py">>, <<"ns", "plugins", "m.py">>,
     <<"other", "m.py">>}

\* the tree holding the given paths; the content of a file tells the tree
\* and the path it comes from
Tree(origin, paths) == [path \in paths |-> [origin |-> origin, path |-> path]]

\* the directory named by the environment, or missing
ExplicitDirs == {Missing} \cup {Directory(Tree("explicit", paths)) : paths \in SUBSET TreePaths}

\* ansible_collections of the working directory, or missing
CwdDirs == {Missing, Directory(Tree("cwd", {<<"README">>, <<"ns", "m.py">>}))}

MockDirs == {Missing} \cup {Directory(Tree("mock", paths)) : paths \in SUBSET TreePaths}

InitStaging ==
    /\ InitExt
    /\ pc = [o \in Ops |-> "idle"]
    /\ scenario_data = Empty
    /\ playbook_stats = Empty
    /\ InitVerifiers
    /\ InitRunner /\ run_input = NoRunInput
    /\ InitAdapter
    /\ InitManager
    /\ \E explicit \in ExplicitDirs, cwd \in CwdDirs :
           collection_dirs_to_check = <<explicit, cwd>>
    /\ mock_collections_dir \in MockDirs
    /\ temp_collections = None
    /\ overlaid = FALSE

NextStaging == CopyRealCollectionsToTemp \/ OverlayMockModules

SpecStaging == InitStaging /\ [][NextStaging]_vars

\* the real collection tree: the files of the first candidate that exists
RealTree ==
    LET source == collections_source(collection_dirs_to_check, 1)
    IN  IF source.exists THEN source.files ELSE Empty

\* the mock tree
MockTree == IF mock_collections_dir.exists THEN mock_collections_dir.files ELSE Empty

\* the copy and the overlay are done
Staged == ~IsNone(temp_collections) /\ overlaid

\* C20: after staging, for every relative path: a file of the mock tree is
\* staged with the mock content, otherwise a file of the real tree is
\* staged with the real content.
C20_OverlayWins ==
    Staged =>
        \A path \in DOMAIN RealTree \cup DOMAIN MockTree :
            /\ path \in DOMAIN temp_collections.files
            /\ temp_collections.files[path] =
                   IF path \in DOMAIN MockTree THEN MockTree[path] ELSE RealTree[path]

(***************************************************************************)
(* Specification of the preparation of a run: the staging of the           *)
(* collections, the mock configs and the environment of the external       *)
(* runner, built from the environment of the process.                      *)
(***************************************************************************)
\* list(d.keys()) for the keys of a dict, in one order
RECURSIVE SetToSeq(_)
SetToSeq(S) == IF S = {} THEN <<>> ELSE LET x == CHOOSE x \in S : TRUE IN <<x>> \o SetToSeq(S \ {x})

\* variables the process may hold before the run
ProcessVars ==
    PYTHONPATH :> [text |-> "/site"]
        @@ ANSIBLE_COLLECTIONS_PATH :> [text |-> "/collections"]
        @@ ConfigVarName(StepA) :> [text |-> "/stale.json"]

\* os.environ before the run
ProcessEnvs == {[name \in names |-> ProcessVars[name]] @@ BaseEnv : names \in SUBSET DOMAIN ProcessVars}

\* the real collections of the run
WireRealDirs ==
    {<<explicit, cwd>> :
        explicit \in {Missing, Directory(Tree("explicit", {<<"README">>, <<"ns", "m.py">>}))},
        cwd \in CwdDirs}

WireMockDirs == {Missing, Directory(Tree("mock", {<<"ns", "m.py">>, <<"ns", "n.py">>}))}

InitWire ==
    /\ InitExt
    /\ pc = [o \in Ops |-> "idle"]
    /\ playbook_stats = Empty
    /\ InitVerifiers
    /\ InitRunner /\ run_input = NoRunInput
    /\ InitAdapter
    /\ manager = NewManager("temp_dir")
    /\ mock_files = Empty
    /\ env = Empty
    /\ os_environ \in ProcessEnvs
    /\ scenario_data \in ManagerScenarios
    /\ calls = <<[op |-> "create_mock_configs",
                  module_names |-> SetToSeq(DOMAIN scenario_data.service_mocks)],
                 [op |-> "runner_env"]>>
    /\ collection_dirs_to_check \in WireRealDirs
    /\ mock_collections_dir \in WireMockDirs
    /\ temp_collections = None
    /\ overlaid = FALSE

NextWire ==
    CopyRealCollectionsToTemp \/ OverlayMockModules \/ CreateMockConfigs \/ RunnerEnv

SpecWire == InitWire /\ [][NextWire]_vars

\* the environment of the external runner is ready
Wired == calls = <<>> /\ env # Empty

\* C21: no step of the preparation of a run changes os.environ or the real
\* and mock collection source trees; once the environment of the external
\* runner is built, the mock-wiring variables, ANSIBLE_TEST_TMP_DIR,
\* ANSIBLE_COLLECTIONS_PATH and PYTHONPATH are set in that mapping, and
\* os.environ holds none of them unless it held it before.
C21_ProcessEnvironmentKept ==
    /\ [][/\ os_environ' = os_environ
          /\ collection_dirs_to_check' = collection_dirs_to_check
          /\ mock_collections_dir' = mock_collections_dir]_vars
    /\ [](Wired =>
            /\ \A step \in ConfiguredSteps :
                   /\ env[ConfigVarName(step)] = ConfigFilePath(manager.temp_dir, step)
                   /\ env[EnabledVarName(step)] = [text |-> "true"]
                   /\ EnabledVarName(step) \notin DOMAIN os_environ
            /\ env[ANSIBLE_TEST_TMP_DIR] = [text |-> manager.temp_dir]
            /\ env[ANSIBLE_COLLECTIONS_PATH] = TempCollectionsDir(manager.temp_dir)
            /\ PYTHONPATH \in DOMAIN env
            /\ ANSIBLE_TEST_TMP_DIR \notin DOMAIN os_environ
            /\ \A name \in DOMAIN os_environ :
                   os_environ[name] = (ProcessVars @@ BaseEnv)[name])

\* the run is prepared with two mocked steps from a process environment
\* that already holds PYTHONPATH, and the collections are staged
C21_Witness ==
    /\ Wired
    /\ Staged
    /\ ConfiguredSteps = {StepA, StepB}
    /\ PYTHONPATH \in DOMAIN os_environ
    /\ env[PYTHONPATH] # os_environ[PYTHONPATH]
    /\ ConfigVarName(StepA) \notin DOMAIN os_environ

(***************************************************************************)
(* The details map and the instance attributes of the orchestrator         *)
(* (SpecRun).                                                              *)
(***************************************************************************)
\* the keys of the details map of a run
VerdictKeys ==
    {"playbook_success", "expected_failure", "verification_passed", "returncode",
     "verification"}

\* C22: on every return path of run_playbook_with_scenario the details map
\* holds the raw run success, the expected-failure flag, the
\* verification-passed flag, the return code of the external runner and the
\* combined verification map.
C22_DetailsAlwaysComplete ==
    (RunEnded /\ ~returned.raised) => VerdictKeys \subseteq DOMAIN returned.details

\* C29: after every call of run_playbook_with_scenario that returns, the
\* success attribute of the instance equals the success flag returned and
\* its execution_details equals the details map returned.
C29_AttributesMirrorReturn ==
    (RunEnded /\ ~returned.raised) =>
        /\ runner.success = returned.success
        /\ runner.execution_details = returned.details

(***************************************************************************)
(* The process-failure fallback of ErrorVerifier.verify (SpecError).       *)
(***************************************************************************)
\* the trace has no host data under play_recap
NoHostRecap ==
    ~("play_recap" \in DOMAIN playbook_stats /\ "hosts" \in DOMAIN playbook_stats["play_recap"])

\* C25: when the trace has no play_recap host data, the process failure
\* recorded by a verify() that ran its checks is total_failures > 0.
C25_FallbackToTotalFailures ==
    (pc["error"] = "done" /\ ErrorChecksRun(scenario_data) /\ NoHostRecap) =>
        results["error"]["process_failure"].actual
            = (Get(playbook_stats, "total_failures", 0) > 0)

(***************************************************************************)
(* Specification of verifier instances that are used again: every verify() *)
(* may be followed by another verify() of any of the four instances, on    *)
(* another scenario and another trace.                                     *)
(***************************************************************************)
\* scenarios: no verify block, an empty one, empty declarations, and
\* declarations that the traces below meet or miss
ReverifyScenarios ==
    {Empty,
     [verify |-> Empty],
     [verify |-> [expected_calls |-> Empty, parameter_validation |-> Empty,
                  call_sequence |-> <<>>, expected_errors |-> <<>>]],
     [verify |-> [expected_calls |-> [foo |-> 1],
                  parameter_validation |-> [foo |-> <<[p |-> PyInt(1)]>>],
                  call_sequence |-> <<"foo", "bar">>,
                  expected_errors |-> <<[message |-> <<"a", "b">>]>>]]}

\* traces: the missing trace, one that meets the declarations above and one
\* that misses them
ReverifyStats ==
    {Empty,
     [call_sequence |-> <<"foo", "bar">>, module_calls |-> [foo |-> 1],
      call_details |-> [foo |-> <<[params |-> [p |-> PyInt(1)]]>>],
      errors |-> <<[message |-> <<"x", "a", "b">>, task |-> <<"u", "t">>]>>],
     [call_sequence |-> <<"bar", "foo">>, module_calls |-> [foo |-> 2],
      call_details |-> [foo |-> <<[params |-> [p |-> PyInt(2)]]>>],
      errors |-> <<[message |-> <<"b", "a">>, task |-> <<"u">>]>>]}

\* the caller hands another scenario and another trace to verify() of the
\* instance v
NextVerifyCall ==
    /\ \A v \in Verifiers : pc[v] # "ready"
    /\ \E v \in Verifiers : pc' = [pc EXCEPT ![v] = "ready"]
    /\ scenario_data' \in ReverifyScenarios
    /\ playbook_stats' \in ReverifyStats
    /\ UNCHANGED <<extVars, treeVars, overall_status, results, runVars, mockVars, managerVars>>

InitReverify ==
    /\ pc \in {OnlyReady(v) : v \in Verifiers}
    /\ scenario_data \in ReverifyScenarios
    /\ playbook_stats \in ReverifyStats
    /\ InitVerifiers
    /\ InitRunner /\ run_input = NoRunInput
    /\ InitAdapter
    /\ InitManager
    /\ InitTrees
    /\ InitExt

NextReverify ==
    \/ CountVerify
    \/ ParameterVerify
    \/ SequenceVerify
    \/ ErrorVerify
    \/ NextVerifyCall

SpecReverify == InitReverify /\ [][NextReverify]_vars

\* C26: after any sequence of verify() calls, get_status() of each verifier
\* instance equals the _overall_pass of the result its most recent verify()
\* returned.
C26_StatusMirrorsLastResult ==
    \A v \in Verifiers :
        results[v] # Empty => overall_status[v] = results[v]["_overall_pass"]

(***************************************************************************)
(* The combined verification map of run_verifiers (SpecRun).               *)
(***************************************************************************)
\* the strategies of the scenario of the run
RunStrategies == create_strategies(scenario_data)

\* the result verify() of the i-th strategy returned
RunResult(i) == StrategyVerify(RunStrategies[i], scenario_data, playbook_stats)

\* C27: whenever at least one strategy ran, the _overall_pass entry of the
\* combined map is the conjunction of the _overall_pass values of the
\* strategies that ran and equals the verification_passed flag reported
\* next to the map.
C27_CombinedPassIsConjunction ==
    (RanAndVerified /\ RunStrategies # <<>>) =>
        /\ returned.details.verification["_overall_pass"]
               = (\A i \in 1..Len(RunStrategies) : RunResult(i)["_overall_pass"])
        /\ returned.details.verification["_overall_pass"]
               = returned.details.verification_passed

\* C28: every record a strategy produced is present unchanged in the
\* combined verification map.
C28_MergeKeepsRecords ==
    RanAndVerified =>
        \A i \in 1..Len(RunStrategies) :
            \A key \in DOMAIN RunResult(i) \ {"_overall_pass"} :
                /\ key \in DOMAIN returned.details.verification
                /\ returned.details.verification[key] = RunResult(i)[key]

(***************************************************************************)
(* Specification of the trace-writing callback: a new tracker receives     *)
(* any sequence of ok, failed and skipped events about two steps.          *)
(***************************************************************************)
InitTrackerEvents ==
    /\ pc = [o \in Ops |-> "idle"]
    /\ scenario_data = Empty
    /\ playbook_stats = Empty
    /\ InitVerifiers
    /\ InitRunner /\ run_input = NoRunInput
    /\ InitAdapter
    /\ InitManager
    /\ InitTrees
    /\ InitExt

NextTracker == V2RunnerOnOk \/ V2RunnerOnFailed \/ V2RunnerOnSkipped

SpecTracker == InitTrackerEvents /\ [][NextTracker]_vars

\* the number of delivered events of the given kinds about step m
CountEvents(kinds, m) ==
    Cardinality({i \in 1..Len(events) : events[i].kind \in kinds /\ events[i].module = m})

\* the positions of the failed events, in delivery order
FailedEvents == SelectSeq(events, LAMBDA e : e.kind = "failed")

\* C23: after any sequence of ok, failed and skipped events, for every step
\* m: module_calls[m] is the number of ok plus failed events for m and is
\* len(call_details[m]); failed_modules[m] is the number of failed events
\* for m and errors holds one record per failed event; skipped_modules[m]
\* is the number of skipped events for m; call_sequence lists all events in
\* delivery order, an ok or failed event as m and a skipped one as
\* m(skipped), so a skipped step never increases a call count.
C23_TrackerCounts ==
    /\ \A m \in TrackedModules :
           /\ Get(tracker.module_calls, m, 0) = CountEvents({"ok", "failed"}, m)
           /\ Len(Get(tracker.call_details, m, <<>>)) = CountEvents({"ok", "failed"}, m)
           /\ Get(tracker.failed_modules, m, 0) = CountEvents({"failed"}, m)
           /\ Get(tracker.skipped_modules, m, 0) = CountEvents({"skipped"}, m)
    /\ Len(tracker.errors) = Len(FailedEvents)
    /\ \A i \in 1..Len(tracker.errors) : tracker.errors[i].module = FailedEvents[i].module
    /\ tracker.call_sequence =
           [i \in 1..Len(events) |->
               IF events[i].kind = "skipped"
               THEN SkippedName(events[i].module) ELSE events[i].module]

\* one step ran, failed and was skipped
C23_Witness ==
    /\ Len(events) = MaxEvents
    /\ \E m \in TrackedModules :
           /\ CountEvents({"ok"}, m) > 0
           /\ CountEvents({"failed"}, m) > 0
           /\ CountEvents({"skipped"}, m) > 0
           /\ tracker.module_calls[m] = 2
           /\ SkippedName(m) \in Range(tracker.call_sequence)

(***************************************************************************)
(* Specification of the module mocker: one ModuleMocker for one or two     *)
(* modules, whose files and mock files exist or not, receives any calls of *)
(* setup_mocks and restore_modules, directly or through a with-block.      *)
(***************************************************************************)
\* the items of modules_to_mock
ModulesToMock ==
    {<<[name |-> "a", path |-> <<"mocks", "a">>]>>,
     <<[name |-> "a", path |-> <<"mocks", "a">>],
       [name |-> "b", path |-> <<"mocks", "b">>]>>}

\* the files on disk before the mocker is used: module a is installed,
\* module b and the two mock implementations are there or not
InstalledFiles ==
    {fs \in UNION {[paths -> {"real", "mock"}] :
                      paths \in SUBSET {ModulePath("a"), ModulePath("b"),
                                        <<"mocks", "a">>, <<"mocks", "b">>}} :
        /\ ModulePath("a") \in DOMAIN fs
        /\ \A p \in DOMAIN fs : fs[p] = (IF p[1] = "mocks" THEN "mock" ELSE "real")}

InitMockerCalls ==
    /\ pc = [o \in Ops |-> "idle"]
    /\ scenario_data = Empty
    /\ playbook_stats = Empty
    /\ InitVerifiers
    /\ InitRunner /\ run_input = NoRunInput
    /\ InitAdapter
    /\ InitManager
    /\ InitTrees
    /\ InitTracker
    /\ InitSmtp
    /\ \E modules_to_mock \in ModulesToMock : mocker = NewModuleMocker(modules_to_mock)
    /\ disk \in InstalledFiles
    /\ disk_before = disk
    /\ mocker_calls = <<>>

NextMocker == SetupMocks \/ RestoreModules \/ Enter \/ Exit

SpecMocker == InitMockerCalls /\ [][NextMocker]_vars

\* the last call on the mocker was a restore
Restored ==
    /\ mocker_calls # <<>>
    /\ mocker_calls[Len(mocker_calls)] \in {"restore_modules", "__exit__"}

\* C24: after any sequence of setup_mocks and restore_modules calls that
\* ends with restore_modules (a with-block left included, setup_mocks
\* called more than once before the restore included), every mocked module
\* file holds the content it had before the first setup_mocks and no .bak
\* backup file remains.
C24_RestoreUndoesSetup ==
    Restored =>
        \A i \in 1..Len(mocker.modules_to_mock) :
            LET path == ModulePath(mocker.modules_to_mock[i].name)
            IN  /\ (path \in DOMAIN disk) = (path \in DOMAIN disk_before)
                /\ path \in DOMAIN disk => disk[path] = disk_before[path]
                /\ Append(path, ".bak") \notin DOMAIN disk

(***************************************************************************)
(* Specification of the mock SMTP server: the handler thread accepts       *)
(* messages while the test thread calls reset(), get_messages() and        *)
(* get_message_count(), in every interleaving of their statements.         *)
(***************************************************************************)
InitSmtpThreads ==
    /\ pc = [o \in Ops |-> "idle"]
    /\ scenario_data = Empty
    /\ playbook_stats = Empty
    /\ InitVerifiers
    /\ InitRunner /\ run_input = NoRunInput
    /\ InitAdapter
    /\ InitManager
    /\ InitTrees
    /\ InitExt

NextSmtp ==
    \/ HandleDataPut \/ HandleDataLoad \/ HandleDataStore
    \/ ResetBegin \/ ResetLoop \/ ResetGet \/ ResetCount
    \/ GetMessagesBegin \/ GetMessagesLoop \/ GetMessagesGet
    \/ GetMessageCount

SpecSmtp == InitSmtpThreads /\ [][NextSmtp]_vars

\* no call is in progress in either thread
Quiescent == threads.handler.pc = "idle" /\ threads.test.pc = "idle"

\* C30: under every interleaving of handle_DATA with reset() and
\* get_messages(), once no call is in progress the received count is the
\* number of messages accepted since the last reset: at least the messages
\* whose handle_DATA began after the last reset returned, at most the
\* messages accepted since the last reset was called.  After a reset()
\* that returned with no message accepted afterwards the count is 0 and
\* no message is left for get_messages().
C30_CountMatchesAccepted ==
    Quiescent =>
        /\ handler.received_count >= smtp_log.begun - smtp_log.begun_at_reset_end
        /\ handler.received_count <= smtp_log.accepted - smtp_log.accepted_at_reset_start
        /\ (smtp_log.resets > 0 /\ smtp_log.accepted = smtp_log.accepted_at_reset_end) =>
               /\ handler.received_count = 0
               /\ handler.messages = <<>>

====
